---- MODULE Spec2Model ----
(***************************************************************************)
(* A model of the handler adapter of package m (mint.go): the response     *)
(* wrapper, the process-wide configuration, the route-pattern scanner, the *)
(* error classifier and the per-request flow of a handler wrapped by H.    *)
(*                                                                         *)
(* Strings that the code inspects character by character (route patterns,  *)
(* error messages) are sequences of one-character strings.                 *)
(***************************************************************************)
EXTENDS Integers, Sequences, FiniteSets, TLC

VARIABLES
    \* ResponseWriter (mint.go:392-396) and the writer it decorates
    statusCode, headerWritten, under,
    \* package-level state (mint.go:50-55)
    config, configOnce, CustomErrorHandler,
    \* the wrapper driven directly: the calls made so far
    rwCalls,
    \* extractPatternNames (mint.go:934-968): its argument, the index of the
    \* next character of the range loop, and its locals
    scanPattern, scanPos, scanSt,
    \* the error classifier applied to one error: toHTTPError's argument and
    \* result, and inferErrorType's argument and result
    clsErr, clsOut, clsTag,
    \* H (mint.go:423-545): the wrapped function's descriptor, the position of
    \* the request flow, the closure's locals, and the calls made so far in
    \* the current request
    fn, pc, req, pathKeys, keyIdx, idx, args, results, trace,
    \* goroutines calling getConfig (mint.go:102-107) and SetConfig
    \* (mint.go:89-100), extracting and encoding concurrently: each one's
    \* position, configMu, and the goroutine inside configOnce.Do
    cfgRun,
    \* Path[T].Extract (mint.go:321-374) applied to one receiver and one
    \* path value
    pathRun

rwVars  == <<statusCode, headerWritten, under>>
cfgVars == <<config, configOnce, CustomErrorHandler>>
scanVars == <<scanPattern, scanPos, scanSt>>
clsVars == <<clsErr, clsOut, clsTag>>
flowVars == <<fn, pc, req, pathKeys, keyIdx, idx, args, results, trace>>
vars    == <<statusCode, headerWritten, under, config, configOnce,
             CustomErrorHandler, rwCalls, scanPattern, scanPos, scanSt,
             clsErr, clsOut, clsTag, fn, pc, req, pathKeys, keyIdx, idx, args,
             results, trace, cfgRun, pathRun>>

(***************************************************************************)
(* Bounds of the model.                                                    *)
(***************************************************************************)
MaxRWCalls == 4
MaxPatternLen == 6
MaxWords == 2
MaxGoroutines == 2
MaxCfgCalls == 3
MaxPathLen == 2
MaxUserCalls == 1
MaxParams == 2

(***************************************************************************)
(* Program constants.                                                      *)
(***************************************************************************)
StatusOK == 200

Nil == "nil"

\* the sequences of at most n elements of S
RECURSIVE SeqsUpTo(_, _)
SeqsUpTo(S, n) ==
    IF n = 0 THEN {<<>>}
    ELSE LET shorter == SeqsUpTo(S, n - 1)
         IN  shorter \cup {Append(q, x) : q \in {r \in shorter : Len(r) = n - 1}, x \in S}

(***************************************************************************)
(* Configuration (mint.go:20-107).  A *Config is Nil or a record; only the *)
(* fields the adapter branches on are kept.                                *)
(***************************************************************************)
NilConfig == [id |-> "nil"]
DefaultConfig == [id |-> "default", EnableValidation |-> TRUE, Validator |-> TRUE]

\* a goroutine that is in none of getConfig, SetConfig, an Extract and a
\* response encoding; snap is the configuration an Extract decoded with
IdleGoroutine ==
    [pc |-> "idle", op |-> "none", arg |-> NilConfig, after |-> FALSE, epoch |-> 0,
     snap |-> NilConfig]

\* no goroutine has called getConfig or SetConfig: configMu is free and
\* nobody is inside configOnce.Do
NoCfgRun ==
    [thr |-> [g \in 1..MaxGoroutines |-> IdleGoroutine], mu |-> 0, onceBy |-> 0,
     lastSet |-> NilConfig, got |-> NilConfig, calls |-> 0, epoch |-> 0]

CfgIdle == cfgRun = NoCfgRun

\* Path[T].Extract has not been set up
NoPathRun == [T |-> "none"]

PathIdle == pathRun = NoPathRun

\* the writer decorated by a fresh wrapper: nothing forwarded, no header, no
\* body; late holds the keys of the headers changed after the wrapper
\* committed a status
HeaderKeys == {"Content-Type", "X-Extra"}
FreshUnder ==
    [codes |-> <<>>, hdr |-> [k \in HeaderKeys |-> <<>>], body |-> <<>>, calls |-> <<>>,
     late |-> {}]

\* The part of the program state that the sequential code of one call threads
\* through: the wrapper, the decorated writer and the configuration globals.
World ==
    [statusCode |-> statusCode, headerWritten |-> headerWritten, under |-> under,
     config |-> config, configOnce |-> configOnce]

\* initDefaultConfig: configOnce.Do(func() { if config == nil { config = ... } })
initDefaultConfig(w) ==
    IF w.configOnce THEN w
    ELSE [w EXCEPT !.configOnce = TRUE,
                   !.config = IF w.config = NilConfig THEN DefaultConfig ELSE w.config]

\* getConfig: the state it leaves (the value returned is its config field)
getConfig(w) == initDefaultConfig(w)

\* WriteHeader without the headerWritten guard: a later call overwrites the status
WriteHeaderUnguarded(w, code) ==
    LET c == IF code <= 0 THEN StatusOK ELSE code
    IN  [w EXCEPT !.statusCode = c,
                  !.headerWritten = TRUE,
                  !.under.codes = Append(@, c),
                  !.under.calls = Append(@, "WriteHeader")]

\* WriteHeader forwarding the code as it was given
WriteHeaderAsGiven(w, code) ==
    IF w.headerWritten THEN getConfig(w)
    ELSE [w EXCEPT !.statusCode = code,
                   !.headerWritten = TRUE,
                   !.under.codes = Append(@, code),
                   !.under.calls = Append(@, "WriteHeader")]

\* ResponseWriter.WriteHeader
WriteHeader(w, code) ==
    IF w.headerWritten
    THEN getConfig(w)          \* logs the warning through getConfig().logger()
    ELSE LET c == IF code <= 0 THEN StatusOK ELSE code
         IN  [w EXCEPT !.statusCode = c,
                       !.headerWritten = TRUE,
                       !.under.codes = Append(@, c),
                       !.under.calls = Append(@, "WriteHeader")]

\* a Write that forwards the bytes and commits nothing
WriteWithoutCommit(w, b) ==
    [w EXCEPT !.under.body = Append(@, b), !.under.calls = Append(@, "Write")]

\* ResponseWriter.Write
Write(w, b) ==
    LET w1 == IF ~w.headerWritten THEN WriteHeader(w, StatusOK) ELSE w
    IN  [w1 EXCEPT !.under.body = Append(@, b), !.under.calls = Append(@, "Write")]

\* the variables take the values of a world
Commit(w) ==
    /\ statusCode' = w.statusCode
    /\ headerWritten' = w.headerWritten
    /\ under' = w.under
    /\ config' = w.config
    /\ configOnce' = w.configOnce

(***************************************************************************)
(* Errors (mint.go:159-166, 181-192, 376-390, 555-602).  An error value is *)
(* a record whose field t is its dynamic Go type; a typed nil pointer has  *)
(* the field nilptr.  NoErr is the nil interface.                          *)
(***************************************************************************)
NoErr == [t |-> "nil"]
Pending == [res |-> "pending"]
ResNil == [res |-> "nil"]
ResPanic == [res |-> "panic"]

ErrTypeBodyRead == "body_read_error"
ErrTypeEmptyBody == "empty_body"
ErrTypeFormParse == "form_parse_error"
ErrTypePathConversion == "path_conversion_error"
ErrTypeMissingPath == "missing_path_value"
ErrTypeValidation == "validation_error"

MsgBodyRead == <<"f","a","i","l","e","d"," ","t","o"," ","r","e","a","d"," ","r","e","q","u","e","s","t"," ","b","o","d","y">>
MsgEmptyBody == <<"r","e","q","u","e","s","t"," ","b","o","d","y"," ","i","s"," ","r","e","q","u","i","r","e","d">>
MsgFormParse == <<"i","n","v","a","l","i","d"," ","f","o","r","m"," ","d","a","t","a"," ","f","o","r","m","a","t">>
MsgUnableToProcess == <<"u","n","a","b","l","e"," ","t","o"," ","p","r","o","c","e","s","s"," ","r","e","q","u","e","s","t">>
MsgInvalidJSON == <<"i","n","v","a","l","i","d"," ","J","S","O","N"," ","s","y","n","t","a","x">>

SomeMessage == <<"o","o","p","s">>

IsNilPtr(v) == "nilptr" \in DOMAIN v

HTTPErrorPtr(code, tag, msg) == [t |-> "*HTTPError", Code |-> code, Err |-> tag, Message |-> msg]
HTTPErrorVal(code, tag, msg) == [t |-> "HTTPError", Code |-> code, Err |-> tag, Message |-> msg]
ExtractError(kind, msg, cause) == [t |-> "*ExtractError", Type |-> kind, Message |-> msg, Err |-> cause]
PlainError(msg) == [t |-> "*errors.errorString", Message |-> msg]
WrapError(msg, cause) == [t |-> "*fmt.wrapError", Message |-> msg, Err |-> cause]
LibError(type, msg) == [t |-> type, Message |-> msg]
NilPtr(type) == [t |-> type, nilptr |-> TRUE]

NewBodyReadError(err) == ExtractError(ErrTypeBodyRead, MsgBodyRead, err)
NewEmptyBodyError == ExtractError(ErrTypeEmptyBody, MsgEmptyBody, NoErr)
NewFormParseError(err) == ExtractError(ErrTypeFormParse, MsgFormParse, err)
\* the messages of the three constructors below are formatted from their
\* arguments; the formatted text is kept as the list of its parts
NewPathConversionError(field, value, targetType, err) ==
    [t |-> "*ExtractError", Type |-> ErrTypePathConversion, Field |-> field,
     Value |-> value,
     Message |-> <<"invalid path parameter", field, "cannot convert", value, "to", targetType>>,
     Err |-> err]
NewMissingPathError(field) ==
    [t |-> "*ExtractError", Type |-> ErrTypeMissingPath, Field |-> field,
     Message |-> <<"missing required path parameter:", field>>, Err |-> NoErr]
NewValidationError(err) == ExtractError(ErrTypeValidation, err.Message, err)

\* HTTPError.Error, ExtractError.Error and the Error methods of the others
\* a *fmt.wrapError made by fmt.Errorf("<Message>: %w", cause) has the text of
\* its cause after its own; fmt prints a nil pointer cause as <nil>
RECURSIVE ErrorText(_)
ErrorText(e) ==
    IF e.t \in {"*HTTPError", "HTTPError"}
    THEN IF e.Message # <<>> THEN e.Message ELSE <<e.Err>>
    ELSE IF e.t = "*fmt.wrapError"
    THEN e.Message \o <<":", " ">>
         \o (IF IsNilPtr(e.Err) THEN <<"<", "n", "i", "l", ">">> ELSE ErrorText(e.Err))
    ELSE e.Message

(***************************************************************************)
(* strings.ToLower and strings.Contains on sequences of characters.        *)
(***************************************************************************)
UpperChars == <<"A","B","C","D","E","F","G","H","I","J","K","L","M","N","O","P","Q","R","S","T","U","V","W","X","Y","Z">>
LowerChars == <<"a","b","c","d","e","f","g","h","i","j","k","l","m","n","o","p","q","r","s","t","u","v","w","x","y","z">>

ToLowerChar(c) ==
    IF \E i \in 1..Len(UpperChars) : UpperChars[i] = c
    THEN LowerChars[CHOOSE i \in 1..Len(UpperChars) : UpperChars[i] = c]
    ELSE c

ToLower(msg) == [i \in 1..Len(msg) |-> ToLowerChar(msg[i])]

Contains(str, sub) ==
    \E i \in 0..(Len(str) - Len(sub)) : SubSeq(str, i + 1, i + Len(sub)) = sub

KwNotFound == <<"n","o","t"," ","f","o","u","n","d">>
KwUnauthorized == <<"u","n","a","u","t","h","o","r","i","z","e","d">>
KwForbidden == <<"f","o","r","b","i","d","d","e","n">>
KwTimeout == <<"t","i","m","e","o","u","t">>
KwBadRequest == <<"b","a","d"," ","r","e","q","u","e","s","t">>
KwInvalid == <<"i","n","v","a","l","i","d">>

\* inferStatusCode with the "invalid" test moved to the front of the switch
inferStatusCodeInvalidFirst(msg) ==
    LET lower == ToLower(msg)
    IN  IF Contains(lower, KwInvalid) THEN 400
        ELSE IF Contains(lower, KwNotFound) THEN 404
        ELSE IF Contains(lower, KwUnauthorized) THEN 401
        ELSE IF Contains(lower, KwForbidden) THEN 403
        ELSE IF Contains(lower, KwTimeout) THEN 408
        ELSE IF Contains(lower, KwBadRequest) THEN 400
        ELSE 500

\* inferStatusCode
inferStatusCode(msg) ==
    LET lower == ToLower(msg)
    IN  IF Contains(lower, KwNotFound) THEN 404
        ELSE IF Contains(lower, KwUnauthorized) THEN 401
        ELSE IF Contains(lower, KwForbidden) THEN 403
        ELSE IF Contains(lower, KwTimeout) THEN 408
        ELSE IF Contains(lower, KwBadRequest) \/ Contains(lower, KwInvalid) THEN 400
        ELSE 500

\* inferErrorType
inferErrorType(code) ==
    CASE code = 400 -> "bad_request"
      [] code = 401 -> "unauthorized"
      [] code = 403 -> "forbidden"
      [] code = 404 -> "not_found"
      [] code = 408 -> "timeout"
      [] OTHER -> "internal_error"

(***************************************************************************)
(* errors.As (Go standard library) on the chain of an error: the first     *)
(* error of the chain whose dynamic type is type.  A typed nil pointer     *)
(* matches its pointer type; asking a nil *ExtractError for its cause      *)
(* dereferences it.                                                        *)
(***************************************************************************)
NotFound == [res |-> "none"]

RECURSIVE errorsAs(_, _)
errorsAs(err, type) ==
    IF err = NoErr THEN NotFound
    ELSE IF err.t = type THEN err
    ELSE IF IsNilPtr(err) THEN (IF err.t = "*ExtractError" THEN ResPanic ELSE NotFound)
    ELSE IF err.t \in {"*ExtractError", "*fmt.wrapError"} THEN errorsAs(err.Err, type)
    ELSE NotFound

HTTPErr(code, tag, msg) == [Code |-> code, Err |-> tag, Message |-> msg]

\* a switch with the default case only
extractErrorToHTTPByDefault(extractErr) ==
    HTTPErr(400, extractErr.Type, extractErr.Message)

\* the switch on extractErr.Type (mint.go:806-849)
extractErrorToHTTP(extractErr) ==
    CASE extractErr.Type = ErrTypeBodyRead ->
            HTTPErr(500, "internal_server_error", MsgUnableToProcess)
      [] extractErr.Type = ErrTypeEmptyBody ->
            HTTPErr(400, "empty_body", extractErr.Message)
      [] extractErr.Type = ErrTypeFormParse ->
            HTTPErr(400, "invalid_form", extractErr.Message)
      [] extractErr.Type = ErrTypePathConversion ->
            HTTPErr(400, "invalid_path_parameter", extractErr.Message)
      [] extractErr.Type = ErrTypeMissingPath ->
            HTTPErr(400, "missing_path_parameter", extractErr.Message)
      [] extractErr.Type = ErrTypeValidation ->
            HTTPErr(400, "validation_failed", extractErr.Message)
      [] OTHER ->
            HTTPErr(400, extractErr.Type, extractErr.Message)

\* the type switch on err itself (mint.go:852-896)
shapeToHTTP(err) ==
    CASE err.t = "*json.UnmarshalTypeError" ->
            HTTPErr(400, "invalid_json_type", <<"field expects but got", err.Message>>)
      [] err.t = "*json.SyntaxError" ->
            HTTPErr(400, "invalid_json_syntax", MsgInvalidJSON)
      [] err.t = "schema.MultiError" ->
            HTTPErr(400, "validation_failed", <<"joined", err.Message>>)
      [] err.t = "*schema.ConversionError" ->
            HTTPErr(400, "conversion_failed", <<"cannot convert field", err.Message>>)
      [] err.t = "*schema.UnknownKeyError" ->
            HTTPErr(400, "unknown_field", <<"unknown field:", err.Message>>)
      [] OTHER ->
            LET code == inferStatusCode(ErrorText(err))
            IN  HTTPErr(code, inferErrorType(code), <<>>)

\* a classifier that maps an ExtractError by its kind before it looks for an
\* HTTPError in the chain
toHTTPErrorExtractFirst(err) ==
    IF err = NoErr THEN ResNil
    ELSE LET extractErr == errorsAs(err, "*ExtractError")
             httpErr == errorsAs(err, "*HTTPError")
             httpErrVal == errorsAs(err, "HTTPError")
         IN  IF extractErr = ResPanic \/ (extractErr # NotFound /\ IsNilPtr(extractErr))
             THEN ResPanic
             ELSE IF extractErr # NotFound THEN extractErrorToHTTP(extractErr)
             ELSE IF httpErr # NotFound
             THEN (IF IsNilPtr(httpErr) THEN ResNil
                   ELSE HTTPErr(httpErr.Code, httpErr.Err, httpErr.Message))
             ELSE IF httpErrVal # NotFound
             THEN HTTPErr(httpErrVal.Code, httpErrVal.Err, httpErrVal.Message)
             ELSE shapeToHTTP(err)

\* toHTTPError: ResNil for a nil *HTTPError, ResPanic when the call panics
toHTTPError(err) ==
    IF err = NoErr THEN ResNil
    ELSE LET httpErr == errorsAs(err, "*HTTPError")
         IN
         IF httpErr = ResPanic THEN ResPanic
         ELSE IF httpErr # NotFound
         THEN (IF IsNilPtr(httpErr) THEN ResNil
               ELSE HTTPErr(httpErr.Code, httpErr.Err, httpErr.Message))
         ELSE LET httpErrVal == errorsAs(err, "HTTPError")
              IN
              IF httpErrVal = ResPanic THEN ResPanic
              ELSE IF httpErrVal # NotFound
              THEN HTTPErr(httpErrVal.Code, httpErrVal.Err, httpErrVal.Message)
              ELSE LET extractErr == errorsAs(err, "*ExtractError")
                   IN
                   IF extractErr = ResPanic \/ (extractErr # NotFound /\ IsNilPtr(extractErr))
                   THEN ResPanic
                   ELSE IF extractErr # NotFound THEN extractErrorToHTTP(extractErr)
                   ELSE shapeToHTTP(err)

(***************************************************************************)
(* Values a handler returns.  A value is a record whose field t is its     *)
(* dynamic Go type; NilVal is the nil interface, a record with the field   *)
(* nilptr a nil pointer, slice or func of type t.                          *)
(***************************************************************************)
NilVal == NoErr

Str(text) == [t |-> "string", v |-> text]

\* a nil http.Header
NoHeaders == [nil |-> TRUE]

\* Result[T] (mint.go:194-200)
Result(code, headers, data, err) ==
    [t |-> "Result", Code |-> code, Headers |-> headers, Data |-> data, Err |-> err]

\* the types with an Error method: error, HTTPError (value receiver, so the
\* pointer has it too), *ExtractError, and types of other packages
ErrorTypes ==
    {"*HTTPError", "HTTPError", "*ExtractError", "*errors.errorString", "*fmt.wrapError",
     "*json.UnmarshalTypeError", "*json.SyntaxError", "schema.MultiError",
     "*schema.ConversionError", "*schema.UnknownKeyError", "validator.ValidationErrors",
     "HandlerError"}

\* types of the application with a ServeHTTP, a Respond or a Read method
HandlerTypes == {"http.HandlerFunc", "HandlerError"}
ResponderTypes == {"CustomResponder", "ResponderReader"}
ReaderTypes == {"*strings.Reader", "ResponderReader"}

InterfaceTypes == {"error", "http.Handler", "io.Reader", "any"}

\* reflect.Type.Implements for the static types of a signature
TypeImplements(type, iface) ==
    CASE iface = "error" -> type \in ErrorTypes \cup {"error"}
      [] iface = "http.Handler" -> type \in HandlerTypes \cup {"http.Handler"}
      [] iface = "io.Reader" -> type \in ReaderTypes \cup {"io.Reader"}
      [] iface = "resultMarker" -> type = "Result"
      [] OTHER -> FALSE

\* the kinds isNilValue tests with IsNil
NilableTypes ==
    InterfaceTypes \cup {"*User", "[]byte", "http.HandlerFunc", "*HTTPError", "*ExtractError"}

\* isNilValue on the reflect.Value of a return slot of static type type
isNilValue(v, type) ==
    IF type \in InterfaceTypes THEN v = NilVal
    ELSE IF type \in NilableTypes THEN IsNilPtr(v)
    ELSE FALSE

(***************************************************************************)
(* The calls a function of the application makes on the http.ResponseWriter*)
(* it is given: a handler function, a Respond or ServeHTTP method, the     *)
(* custom error handler.                                                   *)
(***************************************************************************)
UserCodes == {418}

UserCalls ==
    {[op |-> "WriteHeader", arg |-> c] : c \in UserCodes} \cup {[op |-> "Write", arg |-> "user"]}

Scripts == SeqsUpTo(UserCalls, MaxUserCalls)

Chunk(by, enc, v) == [by |-> by, enc |-> enc, v |-> v]

\* the state the code of one step of a request threads through: the world,
\* the calls made so far, and whether the flow has panicked
Flow == [w |-> World, trace |-> trace, panic |-> FALSE]

Called(st, event) == [st EXCEPT !.trace = Append(@, event)]

Panicked(st, why) == [Called(st, [ev |-> "panic", why |-> why]) EXCEPT !.panic = TRUE]

RECURSIVE RunScript(_, _)
RunScript(st, script) ==
    IF script = <<>> THEN st
    ELSE LET c == Head(script)
             w1 == IF c.op = "WriteHeader" THEN WriteHeader(st.w, c.arg)
                   ELSE Write(st.w, Chunk("user", "raw", c.arg))
         IN  RunScript([st EXCEPT !.w = w1], Tail(script))

\* w.Header().Set(key, value)
HeaderSet(st, key, value) ==
    [st EXCEPT !.w.under.hdr[key] = <<value>>,
               !.w.under.late = IF st.w.headerWritten THEN @ \cup {key} ELSE @]

\* WriteHeaders (mint.go:547-553): w.Header().Add for every value
WriteHeaders(st, headers) ==
    [st EXCEPT !.w.under.hdr =
                  [k \in HeaderKeys |-> IF k \in DOMAIN headers THEN @[k] \o headers[k] ELSE @[k]],
               !.w.under.late = IF st.w.headerWritten THEN @ \cup DOMAIN headers ELSE @]

\* config.jsonEncode(w, v) on the package variable config: a nil *Config is
\* dereferenced
jsonEncode(st, v) ==
    IF st.w.config = NilConfig THEN Panicked(st, "nil config")
    ELSE [st EXCEPT !.w = Write(st.w, Chunk("adapter", "json", v))]

\* a handleError that commits a status of its own after the hook returned
handleErrorCommitsAfterHook(st, err, hook) ==
    LET st0 == Called(st, [ev |-> "handleError", err |-> err])
        st1 == RunScript(Called(st0, [ev |-> "CustomErrorHandler", err |-> err]), hook)
    IN  [st1 EXCEPT !.w = WriteHeader(@, 500)]

\* handleError (mint.go:764-787); hook is what a custom error handler does
handleError(st, err, hook) ==
    LET st0 == Called(st, [ev |-> "handleError", err |-> err])
    IN
    IF CustomErrorHandler # Nil
    THEN RunScript(Called(st0, [ev |-> "CustomErrorHandler", err |-> err]), hook)
    ELSE LET statusWritten == st0.w.headerWritten
             httpErr == toHTTPError(err)
             st1 == Called(st0, [ev |-> "toHTTPError", out |-> httpErr])
         IN
         IF httpErr = ResPanic THEN Panicked(st0, "nil dereference")
         ELSE IF httpErr = ResNil THEN st1
         ELSE LET st2 == HeaderSet(st1, "Content-Type", "application/json; charset=utf-8")
                  st3 == IF ~statusWritten
                         THEN [st2 EXCEPT !.w = WriteHeader(st2.w, httpErr.Code)]
                         ELSE st2
              IN  jsonEncode(st3, httpErr)

\* handleCommonTypes (mint.go:713-746); respond is what a Respond method does
handleCommonTypes(st, data, respond) ==
    LET st0 == Called(st, [ev |-> "handleCommonTypes", data |-> data])
    IN
    IF data = NilVal THEN st0
    ELSE IF data.t \in ResponderTypes
    THEN RunScript(Called(st0, [ev |-> "Respond"]), respond)
    ELSE CASE data.t = "string" ->
                [HeaderSet(st0, "Content-Type", "text/plain; charset=utf-8")
                    EXCEPT !.w = Write(@, Chunk("adapter", "text", data.v))]
           [] data.t = "StatusCode" ->
                [st0 EXCEPT !.w = WriteHeader(@, data.v)]
           [] data.t = "[]byte" ->
                [HeaderSet(st0, "Content-Type", "application/octet-stream")
                    EXCEPT !.w = Write(@, Chunk("adapter", "bytes", data.v))]
           [] data.t \in {"HTML", "template.HTML"} ->
                [HeaderSet(st0, "Content-Type", "text/html; charset=utf-8")
                    EXCEPT !.w = Write(@, Chunk("adapter", "text", data.v))]
           [] data.t \in ReaderTypes ->
                \* io.Copy writes only when the reader yields bytes
                IF data.v = "" THEN st0
                ELSE [st0 EXCEPT !.w = Write(@, Chunk("adapter", "copy", data.v))]
           [] OTHER ->
                jsonEncode(HeaderSet(st0, "Content-Type", "application/json; charset=utf-8"),
                           data)

\* a handleResult that hands the code to WriteHeader whatever it is
handleResultAnyCode(st, result, user) ==
    LET st0 == Called(st, [ev |-> "handleResult"])
        st1 == IF result.Headers # NoHeaders THEN WriteHeaders(st0, result.Headers) ELSE st0
        st2 == [st1 EXCEPT !.w = WriteHeader(@, result.Code)]
    IN  IF result.Err # NoErr THEN handleError(st2, result.Err, user)
        ELSE handleCommonTypes(st2, result.Data, user)

\* handleResult (mint.go:748-762)
handleResult(st, result, user) ==
    LET st0 == Called(st, [ev |-> "handleResult"])
        st1 == IF result.Headers # NoHeaders THEN WriteHeaders(st0, result.Headers) ELSE st0
        st2 == IF result.Code # 0
               THEN [st1 EXCEPT !.w = WriteHeader(@, result.Code)]
               ELSE st1
    IN  IF result.Err # NoErr THEN handleError(st2, result.Err, user)
        ELSE handleCommonTypes(st2, result.Data, user)

\* a handleOneResult that sends every value to handleCommonTypes
handleOneResultUnrouted(st, data, user) == handleCommonTypes(st, data, user)

\* handleOneResult (mint.go:695-704)
handleOneResult(st, data, user) ==
    IF data.t = "Result" THEN handleResult(st, data, user)
    ELSE IF data.t \in ErrorTypes THEN handleError(st, data, user)
    ELSE handleCommonTypes(st, data, user)

\* handleTwoResults (mint.go:706-711): err is the interface value built from
\* the second result, NilVal only for a nil interface
handleTwoResults(st, data, err, user) ==
    IF err # NilVal THEN handleError(st, err, user)
    ELSE handleCommonTypes(st, data, user)

(***************************************************************************)
(* H (mint.go:423-545).  A candidate argument of H is a descriptor: whether*)
(* it is a function, the kinds of its parameters and the static types of   *)
(* its results.                                                            *)
(***************************************************************************)
\* parameter kinds: Path[int] (Extractor and KeySetter), JSON[T], Query[T] and
\* Form[T] (Extractors), an Extractor of the application, http.ResponseWriter,
\* *http.Request, and int for a type of none of these
ParamKinds == {"Path", "JSON", "Query", "Form", "Custom", "ResponseWriter", "Request", "int"}
ExtractorKinds == {"Path", "JSON", "Query", "Form", "Custom"}
KeySetterKinds == {"Path"}

Fn(params, outs) == [isFunc |-> TRUE, params |-> params, outs |-> outs, wrapped |-> TRUE]

\* the checks H makes before it returns the closure: TRUE iff H panics
\* checks that look at the kind of the argument only
HPanicsNonFunction(f) == ~f.isFunc

\* checks that look at the parameter types instead of the result types
HPanicsOnParameter(f) ==
    \/ ~f.isFunc
    \/ \E j \in 1..Len(f.params) :
          f.params[j] \notin ExtractorKinds \cup {"ResponseWriter", "Request"}

HPanics(f) ==
    LET numOut == Len(f.outs)
    IN  \/ ~f.isFunc
        \/ numOut > 2
        \/ /\ numOut = 1
           /\ f.outs[1] \in InterfaceTypes
           /\ ~TypeImplements(f.outs[1], "error")
           /\ ~TypeImplements(f.outs[1], "http.Handler")
           /\ ~TypeImplements(f.outs[1], "io.Reader")
        \/ /\ numOut = 2
           /\ \/ f.outs[1] \in InterfaceTypes
              \/ TypeImplements(f.outs[1], "resultMarker")
              \/ ~TypeImplements(f.outs[2], "error")

(***************************************************************************)
(* The built-in extractors.                                                *)
(***************************************************************************)
DigitChars == <<"0", "1", "2", "3", "4", "5", "6", "7", "8", "9">>

IsDigit(c) == \E d \in 1..Len(DigitChars) : DigitChars[d] = c

DigitVal(c) == (CHOOSE d \in 1..Len(DigitChars) : DigitChars[d] = c) - 1

RECURSIVE DigitsVal(_)
DigitsVal(text) ==
    IF text = <<>> THEN 0
    ELSE 10 * DigitsVal(SubSeq(text, 1, Len(text) - 1)) + DigitVal(text[Len(text)])

\* strconv.Atoi on texts short enough not to overflow
Atoi(text) ==
    LET signed == text # <<>> /\ text[1] \in {"+", "-"}
        digits == IF signed THEN Tail(text) ELSE text
    IN  IF digits = <<>> \/ \E k \in 1..Len(digits) : ~IsDigit(digits[k])
        THEN [ok |-> FALSE]
        ELSE [ok |-> TRUE,
              val |-> IF signed /\ text[1] = "-" THEN 0 - DigitsVal(digits) ELSE DigitsVal(digits)]

SyntaxErr == PlainError(<<"i","n","v","a","l","i","d"," ","s","y","n","t","a","x">>)

\* strconv.ParseInt(text, 10, 64) on texts short enough not to overflow: an
\* optional sign and decimal digits, as Atoi
ParseInt(text) == Atoi(text)

\* strconv.ParseUint(text, 10, bitSize) on texts short enough not to
\* overflow: decimal digits, no sign
ParseUint(text) ==
    IF text = <<>> \/ \E k \in 1..Len(text) : ~IsDigit(text[k])
    THEN [ok |-> FALSE]
    ELSE [ok |-> TRUE, val |-> DigitsVal(text)]

\* a float64 that a short decimal text denotes, as mantissa * 10^exp with
\* the mantissa not divisible by ten, so that equal numbers are equal records
RECURSIVE Float(_, _)
Float(m, e) ==
    IF m = 0 THEN [m |-> 0, e |-> 0]
    ELSE IF m % 10 = 0 THEN Float(m \div 10, e + 1)
    ELSE [m |-> m, e |-> e]

FirstIndex(text, chars) ==
    IF \E k \in 1..Len(text) : text[k] \in chars
    THEN CHOOSE k \in 1..Len(text) :
            text[k] \in chars /\ \A j \in 1..(k - 1) : text[j] \notin chars
    ELSE 0

AllDigits(text) == \A k \in 1..Len(text) : IsDigit(text[k])

\* strconv.ParseFloat(text, 64) on decimal texts: an optional sign, digits
\* with at most one point and at least one digit, and an optional exponent
\* of e or E, an optional sign and at least one digit.  The texts of the model
\* spell neither an infinity nor a NaN, and none has the p exponent that a
\* hexadecimal mantissa requires.
ParseFloat(text) ==
    LET signed == text # <<>> /\ text[1] \in {"+", "-"}
        rest == IF signed THEN Tail(text) ELSE text
        ePos == FirstIndex(rest, {"e", "E"})
        mant == IF ePos = 0 THEN rest ELSE SubSeq(rest, 1, ePos - 1)
        expo == IF ePos = 0 THEN <<>> ELSE SubSeq(rest, ePos + 1, Len(rest))
        dot == FirstIndex(mant, {"."})
        whole == IF dot = 0 THEN mant ELSE SubSeq(mant, 1, dot - 1)
        frac == IF dot = 0 THEN <<>> ELSE SubSeq(mant, dot + 1, Len(mant))
        digits == whole \o frac
        exp10 == IF ePos = 0 THEN 0 ELSE Atoi(expo).val
        m == IF signed /\ text[1] = "-" THEN 0 - DigitsVal(digits) ELSE DigitsVal(digits)
    IN  IF digits = <<>> \/ ~AllDigits(digits) \/ (ePos # 0 /\ ~Atoi(expo).ok)
        THEN [ok |-> FALSE]
        ELSE [ok |-> TRUE, val |-> Float(m, exp10 - Len(frac))]

\* strconv.ParseBool
ParseBool(text) ==
    IF text \in {<<"1">>, <<"t">>, <<"T">>, <<"T","R","U","E">>, <<"t","r","u","e">>,
                 <<"T","r","u","e">>}
    THEN [ok |-> TRUE, val |-> TRUE]
    ELSE IF text \in {<<"0">>, <<"f">>, <<"F">>, <<"F","A","L","S","E">>,
                      <<"f","a","l","s","e">>, <<"F","a","l","s","e">>}
    THEN [ok |-> TRUE, val |-> FALSE]
    ELSE [ok |-> FALSE]

\* the type switch of Path[T].Extract (mint.go:327-372): the conversion that
\* the case of T applies to the path value
Converted(T, pv) ==
    CASE T = "string" -> [ok |-> TRUE, val |-> pv]
      [] T = "int" -> Atoi(pv)
      [] T = "int64" -> ParseInt(pv)
      [] T \in {"uint", "uint64"} -> ParseUint(pv)
      [] T = "float64" -> ParseFloat(pv)
      [] T = "bool" -> ParseBool(pv)

PathSwitchTypes == {"string", "int", "int64", "uint", "uint64", "float64", "bool"}

\* the zero value of T
ZeroOf(T) ==
    CASE T \in {"string", "Slug"} -> <<>>
      [] T = "float64" -> Float(0, 0)
      [] T = "bool" -> FALSE
      [] OTHER -> 0

UnsupportedPathType(key) ==
    [t |-> "*ExtractError", Type |-> "unsupported_type", Field |-> key,
     Message |-> <<"Unsupported path parameter type">>, Err |-> NoErr]

\* a Path[T].Extract whose failures reset Value to the zero value of T
PathExtractResetting(T, p, pv) ==
    IF pv = <<>> THEN [err |-> NewMissingPathError(p.Key), p |-> [p EXCEPT !.Value = ZeroOf(T)]]
    ELSE IF T \notin PathSwitchTypes
    THEN [err |-> UnsupportedPathType(p.Key), p |-> [p EXCEPT !.Value = ZeroOf(T)]]
    ELSE IF ~Converted(T, pv).ok
    THEN [err |-> NewPathConversionError(p.Key, pv, T, SyntaxErr),
          p |-> [p EXCEPT !.Value = ZeroOf(T)]]
    ELSE [err |-> NoErr, p |-> [p EXCEPT !.Value = Converted(T, pv).val]]

\* Path[T].Extract (mint.go:321-374) on the receiver p = [Key, Value], with pv
\* the value of r.PathValue(p.Key): the error returned and the receiver left
PathExtractOf(T, p, pv) ==
    IF pv = <<>> THEN [err |-> NewMissingPathError(p.Key), p |-> p]
    ELSE IF T \notin PathSwitchTypes
    THEN [err |-> UnsupportedPathType(p.Key), p |-> p]
    ELSE IF ~Converted(T, pv).ok
    THEN [err |-> NewPathConversionError(p.Key, pv, T, SyntaxErr), p |-> p]
    ELSE [err |-> NoErr, p |-> [p EXCEPT !.Value = Converted(T, pv).val]]

\* Path[int].Extract (mint.go:321-374) with pv the value of r.PathValue(p.Key):
\* the error returned and the Value left
PathExtract(key, pv) ==
    LET r == PathExtractOf("int", [Key |-> key, Value |-> 0], pv)
    IN  [err |-> r.err, Value |-> r.p.Value]

\* a validate that does not look at the configuration
validateAlways(cfg, violates) ==
    IF violates THEN LibError("validator.ValidationErrors", <<"name is required">>)
    ELSE NoErr

\* Config.validate (mint.go:152-157) on a payload that violates a rule or not
validate(cfg, violates) ==
    IF ~cfg.EnableValidation \/ ~cfg.Validator THEN NoErr
    ELSE IF violates
    THEN LibError("validator.ValidationErrors", <<"name is required">>)
    ELSE NoErr

\* JSON[T].Extract (mint.go:246-269) on a request body: the state left (both
\* getConfig calls included) and the error returned
JSONExtract(st, body) ==
    IF body.read # NoErr THEN [st |-> st, err |-> NewBodyReadError(body.read)]
    ELSE IF body.text = "" THEN [st |-> st, err |-> NewEmptyBodyError]
    ELSE LET st1 == [st EXCEPT !.w = getConfig(@)]
         IN  IF body.text = "syntax"
             THEN [st |-> st1, err |-> LibError("*json.SyntaxError", SomeMessage)]
             ELSE LET st2 == [st1 EXCEPT !.w = getConfig(@)]
                      verr == validate(st2.w.config, body.text = "violates")
                  IN  [st |-> st2,
                       err |-> IF verr # NoErr THEN NewValidationError(verr) ELSE NoErr]

\* Query[T].Extract (mint.go:275-288) on the query values of a request
QueryExtract(st, values) ==
    LET st1 == [st EXCEPT !.w = getConfig(@)]
    IN  IF values.text = "convert"
        THEN [st |-> st1, err |-> LibError("schema.MultiError", SomeMessage)]
        ELSE LET st2 == [st1 EXCEPT !.w = getConfig(@)]
                 verr == validate(st2.w.config, values.text = "violates")
             IN  [st |-> st2,
                  err |-> IF verr # NoErr THEN NewValidationError(verr) ELSE NoErr]

\* Form[T].Extract (mint.go:294-310) on the form of a request: parse is what
\* r.ParseForm returns
FormExtract(st, form) ==
    IF form.parse # NoErr THEN [st |-> st, err |-> NewFormParseError(form.parse)]
    ELSE QueryExtract(st, form)

(***************************************************************************)
(* The inputs of the request flow.                                         *)
(***************************************************************************)
\* route patterns: no parameter, one, two, and an unclosed brace
FlowPatterns ==
    { <<"/">>, <<"/", "{", "a", "}">>, <<"/", "{", "a", "}", "/", "{", "b", "}">>,
      <<"/", "{", "a">> }

PathTexts == { <<>>, <<"4", "2">>, <<"x">> }

Bodies ==
    {[read |-> NoErr, text |-> x] : x \in {"", "syntax", "violates", "valid"}}
    \cup {[read |-> e, text |-> ""] :
            e \in {PlainError(SomeMessage), HTTPErrorPtr(404, "not_found", SomeMessage)}}

Forms ==
    {[parse |-> NoErr, text |-> x] : x \in {"convert", "violates", "valid"}}
    \cup {[parse |-> PlainError(SomeMessage), text |-> ""]}

\* what the Extract method of an Extractor of the application may return
CustomOutcomes ==
    {NoErr, PlainError(KwNotFound),
     ExtractError("custom_kind", SomeMessage, NoErr),
     ExtractError(ErrTypeValidation, SomeMessage, HTTPErrorVal(409, "conflict", SomeMessage))}

HandlerErrorVal == [t |-> "HandlerError", Message |-> KwForbidden]

FlowErrors ==
    {PlainError(KwNotFound), PlainError(SomeMessage),
     HTTPErrorPtr(404, "not_found", SomeMessage), HTTPErrorVal(409, "conflict", SomeMessage),
     NilPtr("*HTTPError"), NilPtr("*ExtractError"),
     ExtractError(ErrTypeValidation, SomeMessage, NoErr),
     LibError("*json.SyntaxError", SomeMessage)}

ExtraHeaders == [k \in {"X-Extra"} |-> <<"1">>]

ResultValues ==
    {Result(code, NoHeaders, data, err) :
        code \in {0, 500, -1},
        data \in {Str("X"), NilVal, NilPtr("*User")},
        err \in {NoErr, PlainError(SomeMessage), HTTPErrorPtr(404, "not_found", SomeMessage)}}
    \cup {Result(201, ExtraHeaders, Str("X"), NoErr)}
    \cup {Result(0, NoHeaders, data, NoErr) :
            data \in {[t |-> "StatusCode", v |-> 404], [t |-> "CustomResponder"]}}

\* the values a result slot of static type type can hold
ValuesOf(type) ==
    CASE type = "string" -> {Str("X"), Str("")}
      [] type = "StatusCode" -> {[t |-> "StatusCode", v |-> 201], [t |-> "StatusCode", v |-> 0]}
      [] type = "[]byte" -> {[t |-> "[]byte", v |-> "B"], [t |-> "[]byte", v |-> "", nilptr |-> TRUE]}
      [] type = "HTML" -> {[t |-> "HTML", v |-> "<p>"]}
      [] type = "template.HTML" -> {[t |-> "template.HTML", v |-> "<p>"]}
      [] type = "User" -> {[t |-> "User", v |-> "u1"]}
      [] type = "*User" -> {[t |-> "*User", v |-> "u1"], NilPtr("*User")}
      [] type = "error" -> {NilVal, HandlerErrorVal} \cup FlowErrors
      [] type = "http.Handler" -> {NilVal, [t |-> "http.HandlerFunc"], HandlerErrorVal}
      [] type = "http.HandlerFunc" -> {[t |-> "http.HandlerFunc"], NilPtr("http.HandlerFunc")}
      [] type = "io.Reader" ->
            {NilVal, [t |-> "*strings.Reader", v |-> "data"], [t |-> "*strings.Reader", v |-> ""],
             [t |-> "ResponderReader", v |-> "data"]}
      [] type = "CustomResponder" -> {[t |-> "CustomResponder"]}
      [] type = "ResponderReader" -> {[t |-> "ResponderReader", v |-> "data"]}
      [] type = "Result" -> ResultValues
      [] type = "*HTTPError" -> {HTTPErrorPtr(404, "not_found", SomeMessage), NilPtr("*HTTPError")}
      [] type = "HTTPError" -> {HTTPErrorVal(409, "conflict", SomeMessage)}
      [] type = "*ExtractError" ->
            {ExtractError(ErrTypeValidation, SomeMessage, NoErr), NilPtr("*ExtractError")}
      [] type = "HandlerError" -> {HandlerErrorVal}
      [] OTHER -> {NilVal}

SingleOuts ==
    {"string", "StatusCode", "[]byte", "HTML", "template.HTML", "User", "*User", "error",
     "http.Handler", "http.HandlerFunc", "io.Reader", "CustomResponder", "ResponderReader",
     "Result", "*HTTPError", "HTTPError", "*ExtractError", "HandlerError", "any"}

OutSigs ==
    {<<>>} \cup {<<x>> : x \in SingleOuts}
    \cup {<<x, y>> : x \in {"string", "*User", "[]byte", "Result", "error", "*HTTPError"},
                     y \in {"error", "*HTTPError", "string"}}
    \cup {<<"string", "string", "error">>}

\* the signatures every parameter list is combined with
PlainOuts == {<<>>, <<"string">>}

Candidates ==
    {[isFunc |-> FALSE, params |-> <<>>, outs |-> <<>>, wrapped |-> TRUE]}
    \cup {Fn(ps, outs) : ps \in SeqsUpTo(ParamKinds, MaxParams), outs \in PlainOuts}
    \cup {Fn(ps, outs) : ps \in {<<>>, <<"ResponseWriter">>}, outs \in OutSigs}

(***************************************************************************)
(* extractPatternNames (mint.go:934-968).  A pattern is a sequence of      *)
(* characters; a name is the sequence of characters captured.  warned      *)
(* records that a warning was logged, which goes through getConfig().      *)
(***************************************************************************)
PatternChars == {"{", "}", "a", "/"}

scanStart ==
    [names |-> <<>>, inParam |-> FALSE, currentName |-> <<>>, depth |-> 0,
     warned |-> FALSE]

\* the loop body without the reset of currentName at an opening brace
scanCharNoReset(st, char) ==
    IF char = "{"
    THEN [st EXCEPT !.warned = @ \/ st.inParam,
                    !.inParam = TRUE,
                    !.depth = @ + 1]
    ELSE IF char = "}"
    THEN IF ~st.inParam
         THEN [st EXCEPT !.warned = TRUE]
         ELSE [st EXCEPT !.inParam = FALSE,
                         !.depth = @ - 1,
                         !.names = IF st.currentName # <<>>
                                   THEN Append(@, st.currentName) ELSE @]
    ELSE IF st.inParam
    THEN [st EXCEPT !.currentName = Append(@, char)]
    ELSE st

\* one iteration of the range loop, on character char
scanChar(st, char) ==
    IF char = "{"
    THEN [st EXCEPT !.warned = @ \/ st.inParam,
                    !.inParam = TRUE,
                    !.depth = @ + 1,
                    !.currentName = <<>>]
    ELSE IF char = "}"
    THEN IF ~st.inParam
         THEN [st EXCEPT !.warned = TRUE]
         ELSE [st EXCEPT !.inParam = FALSE,
                         !.depth = @ - 1,
                         !.names = IF st.currentName # <<>>
                                   THEN Append(@, st.currentName) ELSE @]
    ELSE IF st.inParam
    THEN [st EXCEPT !.currentName = Append(@, char)]
    ELSE st

\* the check after the loop
scanEnd(st) == [st EXCEPT !.warned = @ \/ (st.depth # 0)]

RECURSIVE scanFrom(_, _, _)
scanFrom(st, pattern, i) ==
    IF i > Len(pattern) THEN scanEnd(st)
    ELSE scanFrom(scanChar(st, pattern[i]), pattern, i + 1)

\* extractPatternNames: the final locals (names is the value returned)
extractPatternNames(pattern) == scanFrom(scanStart, pattern, 1)

(***************************************************************************)
(* The scanner run one character at a time on every pattern of at most     *)
(* MaxPatternLen characters.                                               *)
(***************************************************************************)
Patterns == SeqsUpTo(PatternChars, MaxPatternLen)

ScanIdle ==
    /\ scanPattern = <<>>
    /\ scanPos = 0
    /\ scanSt = scanStart

ClsIdle ==
    /\ clsErr = NoErr
    /\ clsOut = Pending
    /\ clsTag = Pending

NoRequest == [Pattern |-> <<>>]

NoFn == [isFunc |-> FALSE, params |-> <<>>, outs |-> <<>>, wrapped |-> FALSE]

FlowIdle ==
    /\ fn = NoFn
    /\ pc = "unwrapped"
    /\ req = NoRequest
    /\ pathKeys = <<>>
    /\ keyIdx = 0
    /\ idx = 0
    /\ args = <<>>
    /\ results = <<>>
    /\ trace = <<>>

InitScan ==
    /\ statusCode = 0
    /\ headerWritten = FALSE
    /\ under = FreshUnder
    /\ config = NilConfig
    /\ configOnce = FALSE
    /\ CustomErrorHandler = Nil
    /\ rwCalls = <<>>
    /\ CfgIdle
    /\ PathIdle
    /\ ClsIdle
    /\ FlowIdle
    /\ scanPattern \in Patterns
    /\ scanPos = 1
    /\ scanSt = scanStart

ScanStep(char) ==
    /\ scanPos >= 1
    /\ scanPos <= Len(scanPattern)
    /\ scanPattern[scanPos] = char
    /\ scanSt' = scanChar(scanSt, char)
    /\ scanPos' = scanPos + 1
    /\ IF scanSt'.warned
       THEN /\ config' = getConfig(World).config
            /\ configOnce' = getConfig(World).configOnce
       ELSE UNCHANGED <<config, configOnce>>
    /\ UNCHANGED <<rwVars, CustomErrorHandler, rwCalls, cfgRun, pathRun, scanPattern, clsVars, flowVars>>

ScanOpenBrace == ScanStep("{")

ScanCloseBrace == ScanStep("}")

ScanOtherChar == \E char \in PatternChars \ {"{", "}"} : ScanStep(char)

ScanReturn ==
    /\ scanPos = Len(scanPattern) + 1
    /\ scanSt' = scanEnd(scanSt)
    /\ scanPos' = 0
    /\ IF scanSt'.warned
       THEN /\ config' = getConfig(World).config
            /\ configOnce' = getConfig(World).configOnce
       ELSE UNCHANGED <<config, configOnce>>
    /\ UNCHANGED <<rwVars, CustomErrorHandler, rwCalls, cfgRun, pathRun, scanPattern, clsVars, flowVars>>

NextScan == ScanOpenBrace \/ ScanCloseBrace \/ ScanOtherChar \/ ScanReturn

SpecScan == InitScan /\ [][NextScan]_vars

Braces == {"{", "}"}

\* the closing braces of p that end a non-empty brace-free capture: a "{" at
\* some i <= j - 2 with no brace strictly between i and j
Closers(p) ==
    {j \in 1..Len(p) :
        /\ p[j] = "}"
        /\ \E i \in 1..(j - 2) :
              /\ p[i] = "{"
              /\ \A k \in (i + 1)..(j - 1) : p[k] \notin Braces}

\* the text between the opening brace that closer j matches and j
CapturedAt(p, j) ==
    LET i == CHOOSE i \in 1..(j - 2) :
                 /\ p[i] = "{"
                 /\ \A k \in (i + 1)..(j - 1) : p[k] \notin Braces
    IN  SubSeq(p, i + 1, j - 1)

\* the part of the pattern the loop has consumed
Scanned ==
    IF scanPos = 0 THEN scanPattern ELSE SubSeq(scanPattern, 1, scanPos - 1)

\* names is, in the order of the closing braces, the list of the non-empty
\* brace-free captures of the part scanned
NamesAreCaptures ==
    LET p == Scanned
        cl == Closers(p)
    IN  /\ Len(scanSt.names) = Cardinality(cl)
        /\ \A j \in cl :
              scanSt.names[Cardinality({x \in cl : x <= j})] = CapturedAt(p, j)
        /\ \A k \in 1..Len(scanSt.names) :
              /\ scanSt.names[k] # <<>>
              /\ \A m \in 1..Len(scanSt.names[k]) : scanSt.names[k][m] \notin Braces

\* the character the next iteration reads, "" at the end of the pattern
ScanHead ==
    IF scanPos >= 1 /\ scanPos <= Len(scanPattern) THEN scanPattern[scanPos] ELSE ""

\* a "}" met while not capturing changes neither the list nor the capture
\* state; a "{" met while capturing keeps the scanner capturing
BraceSteps ==
    /\ (ScanHead = "}" /\ ~scanSt.inParam) =>
          /\ scanSt'.names = scanSt.names
          /\ scanSt'.inParam = scanSt.inParam
          /\ scanSt'.currentName = scanSt.currentName
          /\ scanSt'.depth = scanSt.depth
    /\ (ScanHead = "{" /\ scanSt.inParam) => scanSt'.inParam

\* C9: extractPatternNames returns, in the order of their closing braces,
\* exactly the non-empty names captured between a "{" and the next "}"; every
\* name is non-empty and brace-free; an unmatched "}" changes neither the list
\* nor the capture state, and a nested "{" keeps the scanner capturing.
C9_PatternNames == [] NamesAreCaptures /\ [][BraceSteps]_vars

\* the scan of a pattern with two parameters has returned both names in order
C9_Witness ==
    /\ scanPos = 0
    /\ scanPattern = <<"{", "a", "}", "{", "/", "}">>
    /\ scanSt.names = << <<"a">>, <<"/">> >>

(***************************************************************************)
(* The error classifier applied to one error at a time.  Messages are      *)
(* built from at most MaxWords words joined by single spaces.              *)
(***************************************************************************)
Words ==
    { <<"n","o","t"," ","f","o","u","n","d">>,
      <<"N","O","T"," ","F","o","u","n","d">>,
      <<"u","n","a","u","t","h","o","r","i","z","e","d">>,
      <<"F","o","r","b","i","d","d","e","n">>,
      <<"t","i","m","e","o","u","t">>,
      <<"b","a","d">>,
      <<"r","e","q","u","e","s","t">>,
      <<"I","n","v","a","l","i","d">>,
      <<"o","o","p","s">> }

RECURSIVE Messages(_)
Messages(n) ==
    IF n = 0 THEN {<<>>}
    ELSE LET shorter == Messages(n - 1)
         IN  shorter \cup Words \cup {m \o <<" ">> \o w : m \in shorter \ {<<>>}, w \in Words}

ClsMessages == Messages(MaxWords)

HTTPErrors ==
    {HTTPErrorPtr(404, "not_found", SomeMessage), HTTPErrorPtr(0, "teapot", <<>>),
     HTTPErrorVal(409, "conflict", SomeMessage)}

ExtractKinds ==
    {ErrTypeBodyRead, ErrTypeEmptyBody, ErrTypeFormParse, ErrTypePathConversion,
     ErrTypeMissingPath, ErrTypeValidation, "unsupported_type"}

LibErrors ==
    {LibError(type, SomeMessage) :
        type \in {"*json.UnmarshalTypeError", "*json.SyntaxError", "schema.MultiError",
                  "*schema.ConversionError", "*schema.UnknownKeyError"}}

Causes == {NoErr, PlainError(KwNotFound)} \cup HTTPErrors

ExtractErrors == {ExtractError(kind, SomeMessage, cause) : kind \in ExtractKinds, cause \in Causes}

ClsErrors ==
    {NoErr, NilPtr("*HTTPError"), NilPtr("*ExtractError")}
    \cup {NewBodyReadError(PlainError(KwTimeout)), NewEmptyBodyError, NewMissingPathError("id")}
    \cup {PlainError(m) : m \in ClsMessages}
    \cup HTTPErrors \cup LibErrors \cup ExtractErrors
    \cup {WrapError(KwTimeout, e) :
            e \in HTTPErrors \cup LibErrors \cup {PlainError(KwNotFound), NilPtr("*ExtractError")}
                  \cup {ExtractError(kind, SomeMessage, NoErr) : kind \in ExtractKinds}}

ClsCodes == {0, 200, 400, 401, 403, 404, 408, 409, 500, 503}

InitCls ==
    /\ statusCode = 0
    /\ headerWritten = FALSE
    /\ under = FreshUnder
    /\ config = NilConfig
    /\ configOnce = FALSE
    /\ CustomErrorHandler = Nil
    /\ rwCalls = <<>>
    /\ CfgIdle
    /\ PathIdle
    /\ ScanIdle
    /\ clsErr \in ClsErrors
    /\ clsOut = Pending
    /\ clsTag = Pending
    /\ FlowIdle

\* httpErr := toHTTPError(err)
ClassifyError ==
    /\ clsOut = Pending
    /\ clsOut' = toHTTPError(clsErr)
    /\ UNCHANGED <<rwVars, cfgVars, rwCalls, cfgRun, pathRun, scanVars, clsErr, clsTag, flowVars>>

\* inferErrorType(code)
InferErrorType ==
    /\ clsTag = Pending
    /\ \E code \in ClsCodes : clsTag' = [code |-> code, tag |-> inferErrorType(code)]
    /\ UNCHANGED <<rwVars, cfgVars, rwCalls, cfgRun, pathRun, scanVars, clsErr, clsOut, flowVars>>

NextCls == ClassifyError \/ InferErrorType

SpecCls == InitCls /\ [][NextCls]_vars

\* the keyword tests of the status inference, in priority order
InferenceTable ==
    << [kw |-> {KwNotFound}, code |-> 404],
       [kw |-> {KwUnauthorized}, code |-> 401],
       [kw |-> {KwForbidden}, code |-> 403],
       [kw |-> {KwTimeout}, code |-> 408],
       [kw |-> {KwBadRequest, KwInvalid}, code |-> 400] >>

\* the rows of the table whose keyword occurs in the lower-cased message
Matching(msg) ==
    {r \in 1..Len(InferenceTable) : \E k \in InferenceTable[r].kw : Contains(ToLower(msg), k)}

\* the status of the earliest matching row, 500 when no row matches
EarliestStatus(msg) ==
    IF Matching(msg) = {} THEN 500
    ELSE InferenceTable[CHOOSE r \in Matching(msg) : \A q \in Matching(msg) : r <= q].code

CanonicalTags ==
    (400 :> "bad_request") @@ (401 :> "unauthorized") @@ (403 :> "forbidden")
    @@ (404 :> "not_found") @@ (408 :> "timeout")

CanonicalTag(code) ==
    IF code \in DOMAIN CanonicalTags THEN CanonicalTags[code] ELSE "internal_error"

\* C10: an error matching no structured shape gets the status of the earliest
\* matching keyword of the priority list (500 when none matches) and the
\* canonical tag of that status; every code other than 400/401/403/404/408
\* gets the tag internal_error.
C10_MessageInference ==
    /\ (clsErr.t = "*errors.errorString" /\ clsOut # Pending) =>
          /\ clsOut.Code = EarliestStatus(clsErr.Message)
          /\ clsOut.Err = CanonicalTag(clsOut.Code)
    /\ (clsTag # Pending) => clsTag.tag = CanonicalTag(clsTag.code)

\* a message holding both "invalid" and "not found" was classified as 404
C10_Witness ==
    /\ clsErr = PlainError(<<"I","n","v","a","l","i","d"," ","N","O","T"," ","F","o","u","n","d">>)
    /\ clsOut # Pending
    /\ clsOut.Code = 404
    /\ clsOut.Err = "not_found"
    /\ clsTag # Pending
    /\ clsTag.code = 503

(***************************************************************************)
(* The wrapper driven directly: any sequence of WriteHeader and Write      *)
(* calls on a fresh &ResponseWriter{ResponseWriter: rec}.                  *)
(***************************************************************************)
RWCodes == {-1, 0, 200, 201, 404, 500}
RWChunks == {"a"}

InitRW ==
    /\ statusCode = 0
    /\ headerWritten = FALSE
    /\ under = FreshUnder
    /\ config = NilConfig
    /\ configOnce = FALSE
    /\ CustomErrorHandler = Nil
    /\ rwCalls = <<>>
    /\ CfgIdle
    /\ PathIdle
    /\ ScanIdle
    /\ ClsIdle
    /\ FlowIdle

CallWriteHeader ==
    /\ Len(rwCalls) < MaxRWCalls
    /\ \E code \in RWCodes :
          /\ Commit(WriteHeader(World, code))
          /\ rwCalls' = Append(rwCalls, [op |-> "WriteHeader", arg |-> code])
    /\ UNCHANGED <<CustomErrorHandler, cfgRun, pathRun, scanVars, clsVars, flowVars>>

CallWrite ==
    /\ Len(rwCalls) < MaxRWCalls
    /\ \E b \in RWChunks :
          /\ Commit(Write(World, b))
          /\ rwCalls' = Append(rwCalls, [op |-> "Write", arg |-> b])
    /\ UNCHANGED <<CustomErrorHandler, cfgRun, pathRun, scanVars, clsVars, flowVars>>

NextRW == CallWriteHeader \/ CallWrite

SpecRW == InitRW /\ [][NextRW]_vars

\* the status the first call of a sequence of calls commits
FirstCommitted(calls) ==
    IF calls[1].op = "Write" THEN StatusOK
    ELSE IF calls[1].arg <= 0 THEN StatusOK ELSE calls[1].arg

\* the status is the one the first call committed
FirstCallWins ==
    (rwCalls # <<>>) =>
        /\ headerWritten
        /\ statusCode = FirstCommitted(rwCalls)
        /\ under.codes = <<FirstCommitted(rwCalls)>>

\* once headerWritten, a call changes neither the status nor what was forwarded
CommittedStays ==
    headerWritten =>
        /\ headerWritten'
        /\ statusCode' = statusCode
        /\ under'.codes = under.codes

\* C4: the committed status is the one fixed by the first call that committed
\* it: once headerWritten is true every later WriteHeader(code) leaves
\* statusCode unchanged and is not forwarded to the underlying writer.
C4_FirstStatusWins == [] FirstCallWins /\ [][CommittedStays]_vars

\* WriteHeader(200) then WriteHeader(500) has left status 200
C4_Witness ==
    /\ Len(rwCalls) = 2
    /\ rwCalls[1] = [op |-> "WriteHeader", arg |-> 200]
    /\ rwCalls[2] = [op |-> "WriteHeader", arg |-> 500]
    /\ statusCode = 200
    /\ under.codes = <<200>>

(***************************************************************************)
(* The request flow of a handler wrapped by H, one request at a time, in a *)
(* process where SetConfig and assignments to CustomErrorHandler happen at *)
(* any moment.                                                             *)
(***************************************************************************)
ConfigArgs ==
    {NilConfig,
     [id |-> "custom", EnableValidation |-> FALSE, Validator |-> FALSE],
     [id |-> "custom", EnableValidation |-> TRUE, Validator |-> FALSE]}

Init ==
    /\ statusCode = 0
    /\ headerWritten = FALSE
    /\ under = FreshUnder
    /\ config = NilConfig
    /\ configOnce = FALSE
    /\ CustomErrorHandler = Nil
    /\ rwCalls = <<>>
    /\ CfgIdle
    /\ PathIdle
    /\ ScanIdle
    /\ ClsIdle
    /\ FlowIdle

\* H(fn): the checks made while wrapping
WrapH ==
    /\ pc = "unwrapped"
    /\ \E f \in Candidates :
          /\ fn' = f
          /\ pc' = IF HPanics(f) THEN "wrap panic" ELSE "idle"
    /\ UNCHANGED <<rwVars, cfgVars, rwCalls, cfgRun, pathRun, scanVars, clsVars, req, pathKeys, keyIdx,
                   idx, args, results, trace>>

\* SetConfig (mint.go:89-100)
SetConfig ==
    /\ pc # "unwrapped"
    /\ \E cfg \in ConfigArgs :
          IF cfg = NilConfig
          THEN /\ config' = initDefaultConfig(World).config
               /\ configOnce' = initDefaultConfig(World).configOnce
          ELSE /\ config' = [cfg EXCEPT !.Validator = @ \/ cfg.EnableValidation]
               /\ UNCHANGED configOnce
    /\ UNCHANGED <<rwVars, CustomErrorHandler, rwCalls, cfgRun, pathRun, scanVars, clsVars, flowVars>>

\* an assignment to the package variable CustomErrorHandler
SetCustomErrorHandler ==
    /\ pc # "unwrapped"
    /\ \E h \in {Nil, "hook"} : h # CustomErrorHandler /\ CustomErrorHandler' = h
    /\ UNCHANGED <<rwVars, config, configOnce, rwCalls, cfgRun, pathRun, scanVars, clsVars, flowVars>>

\* the closure up to the parameter loop (mint.go:466-472)
ServeHTTP ==
    /\ pc = "idle"
    /\ \E pattern \in FlowPatterns :
          LET sc == extractPatternNames(pattern)
          IN  /\ req' = [Pattern |-> pattern]
              /\ pathKeys' = sc.names
              /\ Commit(IF sc.warned THEN getConfig(World) ELSE World)
    /\ keyIdx' = 0
    /\ idx' = 1
    /\ pc' = "params"
    /\ UNCHANGED <<CustomErrorHandler, rwCalls, cfgRun, pathRun, scanVars, clsVars, fn, args, results, trace>>

\* the scripts a custom error handler may run, none when none is installed
HookScripts == IF CustomErrorHandler = Nil THEN {<<>>} ELSE Scripts

\* an iteration that goes on to the next parameter after a failed Extract
BoundWithoutReturn(st, err, arg) ==
    /\ Commit(st.w)
    /\ trace' = st.trace
    /\ pc' = IF st.panic THEN "panic" ELSE "params"
    /\ idx' = IF st.panic THEN idx ELSE idx + 1
    /\ args' = IF st.panic THEN args ELSE Append(args, arg)

\* the end of one iteration of the parameter loop: st is the state reached
\* and err what Extract returned
Bound(st, err, arg) ==
    /\ Commit(st.w)
    /\ trace' = st.trace
    /\ pc' = IF st.panic THEN "panic" ELSE IF err # NoErr THEN "done" ELSE "params"
    /\ idx' = IF st.panic \/ err # NoErr THEN idx ELSE idx + 1
    /\ args' = IF st.panic \/ err # NoErr THEN args ELSE Append(args, arg)

\* the first path name whatever the position
firstPathKey(keys, k) == keys[1]

\* pathKeys[keyIdx] (mint.go:484), with Go's indices from 0
nextPathKey(keys, k) == keys[k + 1]

AtParam(kinds) ==
    /\ pc = "params"
    /\ idx <= Len(fn.params)
    /\ fn.params[idx] \in kinds

\* case Extractor, for a Path[int] parameter (mint.go:476-495)
BindPath ==
    /\ AtParam({"Path"})
    /\ IF keyIdx >= Len(pathKeys)
       THEN /\ Bound(Panicked(Flow, "insufficient path parameters"), NoErr, <<>>)
            /\ UNCHANGED keyIdx
       ELSE \E pv \in PathTexts, hook \in HookScripts :
               LET key == nextPathKey(pathKeys, keyIdx)
                   st0 == Called(Flow, [ev |-> "SetKey", i |-> idx, key |-> key])
                   ex == PathExtract(key, pv)
                   st1 == Called(st0, [ev |-> "Extract", i |-> idx, err |-> ex.err])
                   st2 == IF ex.err # NoErr THEN handleError(st1, ex.err, hook) ELSE st1
               IN  /\ Bound(st2, ex.err, [kind |-> "Path", Key |-> key, Value |-> ex.Value])
                   /\ keyIdx' = keyIdx + 1
    /\ UNCHANGED <<CustomErrorHandler, rwCalls, cfgRun, pathRun, scanVars, clsVars, fn, req, pathKeys, results>>

\* case Extractor, for a JSON[T] parameter (mint.go:476-495)
BindJSON ==
    /\ AtParam({"JSON"})
    /\ \E body \in Bodies, hook \in HookScripts :
          LET ex == JSONExtract(Flow, body)
              st1 == Called(ex.st, [ev |-> "Extract", i |-> idx, err |-> ex.err,
                                    payload |-> body.text])
              st2 == IF ex.err # NoErr THEN handleError(st1, ex.err, hook) ELSE st1
          IN  Bound(st2, ex.err, [kind |-> "JSON"])
    /\ UNCHANGED <<CustomErrorHandler, rwCalls, cfgRun, pathRun, scanVars, clsVars, fn, req, pathKeys,
                   keyIdx, results>>

\* case Extractor, for a Query[T] parameter (mint.go:476-495)
BindQuery ==
    /\ AtParam({"Query"})
    /\ \E values \in {f \in Forms : f.parse = NoErr}, hook \in HookScripts :
          LET ex == QueryExtract(Flow, values)
              st1 == Called(ex.st, [ev |-> "Extract", i |-> idx, err |-> ex.err,
                                    payload |-> values.text])
              st2 == IF ex.err # NoErr THEN handleError(st1, ex.err, hook) ELSE st1
          IN  Bound(st2, ex.err, [kind |-> "Query"])
    /\ UNCHANGED <<CustomErrorHandler, rwCalls, cfgRun, pathRun, scanVars, clsVars, fn, req, pathKeys,
                   keyIdx, results>>

\* case Extractor, for a Form[T] parameter (mint.go:476-495)
BindForm ==
    /\ AtParam({"Form"})
    /\ \E form \in Forms, hook \in HookScripts :
          LET ex == FormExtract(Flow, form)
              st1 == Called(ex.st, [ev |-> "Extract", i |-> idx, err |-> ex.err,
                                    payload |-> form.text])
              st2 == IF ex.err # NoErr THEN handleError(st1, ex.err, hook) ELSE st1
          IN  Bound(st2, ex.err, [kind |-> "Form"])
    /\ UNCHANGED <<CustomErrorHandler, rwCalls, cfgRun, pathRun, scanVars, clsVars, fn, req, pathKeys,
                   keyIdx, results>>

\* case Extractor, for an Extractor of the application (mint.go:476-495)
BindCustom ==
    /\ AtParam({"Custom"})
    /\ \E err \in CustomOutcomes, hook \in HookScripts :
          LET st1 == Called(Flow, [ev |-> "Extract", i |-> idx, err |-> err])
              st2 == IF err # NoErr THEN handleError(st1, err, hook) ELSE st1
          IN  Bound(st2, err, [kind |-> "Custom"])
    /\ UNCHANGED <<CustomErrorHandler, rwCalls, cfgRun, pathRun, scanVars, clsVars, fn, req, pathKeys,
                   keyIdx, results>>

\* case http.ResponseWriter (mint.go:497-498)
BindResponseWriter ==
    /\ AtParam({"ResponseWriter"})
    /\ Bound(Flow, NoErr, [kind |-> "ResponseWriter"])
    /\ UNCHANGED <<CustomErrorHandler, rwCalls, cfgRun, pathRun, scanVars, clsVars, fn, req, pathKeys,
                   keyIdx, results>>

\* case *http.Request (mint.go:500-501)
BindRequest ==
    /\ AtParam({"Request"})
    /\ Bound(Flow, NoErr, [kind |-> "Request"])
    /\ UNCHANGED <<CustomErrorHandler, rwCalls, cfgRun, pathRun, scanVars, clsVars, fn, req, pathKeys,
                   keyIdx, results>>

\* default: log.Panicf (mint.go:503-504)
BindUnsupported ==
    /\ AtParam(ParamKinds \ (ExtractorKinds \cup {"ResponseWriter", "Request"}))
    /\ Bound(Panicked(Flow, "unsupported parameter type"), NoErr, <<>>)
    /\ UNCHANGED <<CustomErrorHandler, rwCalls, cfgRun, pathRun, scanVars, clsVars, fn, req, pathKeys,
                   keyIdx, results>>

\* the tuples of values a function with result types outs can return
ResultTuples(outs) ==
    IF Len(outs) = 0 THEN {<<>>}
    ELSE IF Len(outs) = 1 THEN {<<x>> : x \in ValuesOf(outs[1])}
    ELSE {<<x, y>> : x \in ValuesOf(outs[1]), y \in ValuesOf(outs[2])}

HasWriter == \E k \in 1..Len(args) : args[k].kind = "ResponseWriter"

\* results := fnVal.Call(args) (mint.go:508): the function may use the
\* wrapper it was given
CallHandler ==
    /\ pc = "params"
    /\ idx > Len(fn.params)
    /\ \E script \in (IF HasWriter THEN Scripts ELSE {<<>>}), res \in ResultTuples(fn.outs) :
          LET st == RunScript(Called(Flow, [ev |-> "fn"]), script)
          IN  /\ Commit(st.w)
              /\ trace' = st.trace
              /\ results' = res
    /\ pc' = "results"
    /\ UNCHANGED <<CustomErrorHandler, rwCalls, cfgRun, pathRun, scanVars, clsVars, fn, req, pathKeys,
                   keyIdx, idx, args>>

\* the end of the closure
Routed(st) ==
    /\ Commit(st.w)
    /\ trace' = st.trace
    /\ pc' = IF st.panic THEN "panic" ELSE "done"
    /\ UNCHANGED <<CustomErrorHandler, rwCalls, cfgRun, pathRun, scanVars, clsVars, fn, req, pathKeys,
                   keyIdx, idx, args, results>>

\* len(results) == 0 (mint.go:510-512)
RouteNoResult ==
    /\ pc = "results"
    /\ Len(results) = 0
    /\ Routed(Flow)

\* len(results) == 1 (mint.go:514-529)
RouteOneResult ==
    /\ pc = "results"
    /\ Len(results) = 1
    /\ \E user \in Scripts :
          LET rv == results[1]
          IN  Routed(IF isNilValue(rv, fn.outs[1]) THEN Flow
                     ELSE IF rv.t \in HandlerTypes
                     THEN RunScript(Called(Flow, [ev |-> "ServeHTTP"]), user)
                     ELSE handleOneResult(Flow, rv, user))

\* len(results) == 2 (mint.go:531-543)
RouteTwoResults ==
    /\ pc = "results"
    /\ Len(results) = 2
    /\ \E user \in Scripts :
          Routed(IF isNilValue(results[1], fn.outs[1]) /\ isNilValue(results[2], fn.outs[2])
                 THEN Flow
                 ELSE handleTwoResults(Flow, results[1], results[2], user))

\* the request is over; the next one gets a fresh wrapper and fresh locals
Finish ==
    /\ pc \in {"done", "panic"}
    /\ pc' = "idle"
    /\ statusCode' = 0
    /\ headerWritten' = FALSE
    /\ under' = FreshUnder
    /\ req' = NoRequest
    /\ pathKeys' = <<>>
    /\ keyIdx' = 0
    /\ idx' = 0
    /\ args' = <<>>
    /\ results' = <<>>
    /\ trace' = <<>>
    /\ UNCHANGED <<cfgVars, rwCalls, cfgRun, pathRun, scanVars, clsVars, fn>>

Next ==
    \/ WrapH
    \/ SetConfig
    \/ SetCustomErrorHandler
    \/ ServeHTTP
    \/ BindPath
    \/ BindJSON
    \/ BindQuery
    \/ BindForm
    \/ BindCustom
    \/ BindResponseWriter
    \/ BindRequest
    \/ BindUnsupported
    \/ CallHandler
    \/ RouteNoResult
    \/ RouteOneResult
    \/ RouteTwoResults
    \/ Finish

Spec == Init /\ [][Next]_vars

(***************************************************************************)
(* getConfig and SetConfig called from several goroutines.  A step is one  *)
(* access to shared memory: taking or releasing configMu, entering         *)
(* configOnce.Do, the read of config inside the once body, the store of    *)
(* the default, the store of SetConfig, the read of getConfig.  The once   *)
(* body runs without configMu (getConfig calls initDefaultConfig before    *)
(* RLock), so its read and its store interleave with SetConfig.            *)
(***************************************************************************)
Goroutines == 1..MaxGoroutines

\* where a goroutine continues when initDefaultConfig returns: SetConfig(nil)
\* returns through its deferred Unlock, getConfig goes on to RLock
afterInit(g) == IF cfgRun.thr[g].op = "SetConfig" THEN "unlock" ELSE "read"

\* a SetConfig with a non-nil argument that has been invoked and has not returned
Replacing(g) ==
    /\ cfgRun.thr[g].op = "SetConfig"
    /\ cfgRun.thr[g].arg # NilConfig
    /\ cfgRun.thr[g].pc # "idle"

CfgStep(g, thread, run) ==
    /\ cfgRun' = [run EXCEPT !.thr[g] = thread]
    /\ UNCHANGED <<rwVars, CustomErrorHandler, rwCalls, pathRun, scanVars, clsVars, flowVars>>

InitCfg ==
    /\ statusCode = 0
    /\ headerWritten = FALSE
    /\ under = FreshUnder
    /\ config = NilConfig
    /\ configOnce = FALSE
    /\ CustomErrorHandler = Nil
    /\ rwCalls = <<>>
    /\ CfgIdle
    /\ PathIdle
    /\ ScanIdle
    /\ ClsIdle
    /\ FlowIdle

\* a goroutine calls getConfig(); the call is remembered as one made after a
\* replacement when a SetConfig(non-nil) has returned and none is in progress
CallGetConfig(g) ==
    /\ cfgRun.thr[g].pc = "idle"
    /\ cfgRun.calls < MaxCfgCalls
    /\ CfgStep(g, [pc |-> "once", op |-> "getConfig", arg |-> NilConfig,
                   after |-> cfgRun.lastSet # NilConfig /\ \A h \in Goroutines : ~Replacing(h),
                   epoch |-> cfgRun.epoch, snap |-> NilConfig],
               [cfgRun EXCEPT !.calls = @ + 1])
    /\ UNCHANGED <<config, configOnce>>

\* a goroutine calls SetConfig(cfg)
CallSetConfig(g) ==
    /\ cfgRun.thr[g].pc = "idle"
    /\ cfgRun.calls < MaxCfgCalls
    /\ \E cfg \in ConfigArgs :
          CfgStep(g, [pc |-> "lock", op |-> "SetConfig", arg |-> cfg, after |-> FALSE,
                      epoch |-> cfgRun.epoch, snap |-> NilConfig],
                  [cfgRun EXCEPT !.calls = @ + 1,
                                 !.epoch = IF cfg = NilConfig THEN @ ELSE @ + 1])
    /\ UNCHANGED <<config, configOnce>>

\* SetConfig: configMu.Lock() (mint.go:90), then the test of cfg (mint.go:92)
LockConfigMu(g) ==
    /\ cfgRun.thr[g].pc = "lock"
    /\ cfgRun.mu = 0
    /\ CfgStep(g, [cfgRun.thr[g] EXCEPT !.pc = IF cfgRun.thr[g].arg = NilConfig
                                               THEN "once" ELSE "store"],
               [cfgRun EXCEPT !.mu = g])
    /\ UNCHANGED <<config, configOnce>>

\* SetConfig: the default validator, config = cfg (mint.go:96-99), the
\* deferred Unlock and the return
StoreConfig(g) ==
    /\ cfgRun.thr[g].pc = "store"
    /\ LET cfg == [cfgRun.thr[g].arg EXCEPT !.Validator = @ \/ cfgRun.thr[g].arg.EnableValidation]
       IN  /\ config' = cfg
           /\ CfgStep(g, IdleGoroutine, [cfgRun EXCEPT !.mu = 0, !.lastSet = cfg])
    /\ UNCHANGED configOnce

\* configOnce.Do (mint.go:58): a done Once returns at once, a fresh one is
\* entered by one goroutine, and the others wait until it is done
EnterOnce(g) ==
    /\ cfgRun.thr[g].pc = "once"
    /\ IF configOnce
       THEN CfgStep(g, [cfgRun.thr[g] EXCEPT !.pc = afterInit(g)], cfgRun)
       ELSE /\ cfgRun.onceBy = 0
            /\ CfgStep(g, [cfgRun.thr[g] EXCEPT !.pc = "check"], [cfgRun EXCEPT !.onceBy = g])
    /\ UNCHANGED <<config, configOnce>>

\* a once body that stores the default whatever config holds
CheckConfigNilSkipped(g) ==
    /\ cfgRun.thr[g].pc = "check"
    /\ CfgStep(g, [cfgRun.thr[g] EXCEPT !.pc = "default"], cfgRun)
    /\ UNCHANGED <<config, configOnce>>

\* the once body: if config == nil (mint.go:59), read without configMu
CheckConfigNil(g) ==
    /\ cfgRun.thr[g].pc = "check"
    /\ IF config = NilConfig
       THEN /\ CfgStep(g, [cfgRun.thr[g] EXCEPT !.pc = "default"], cfgRun)
            /\ UNCHANGED configOnce
       ELSE /\ CfgStep(g, [cfgRun.thr[g] EXCEPT !.pc = afterInit(g)], [cfgRun EXCEPT !.onceBy = 0])
            /\ configOnce' = TRUE
    /\ UNCHANGED config

\* the once body: config = &Config{...} (mint.go:60-63), stored without
\* configMu, and the Once becomes done
StoreDefault(g) ==
    /\ cfgRun.thr[g].pc = "default"
    /\ config' = DefaultConfig
    /\ configOnce' = TRUE
    /\ CfgStep(g, [cfgRun.thr[g] EXCEPT !.pc = afterInit(g)], [cfgRun EXCEPT !.onceBy = 0])

\* SetConfig(nil): the deferred configMu.Unlock() (mint.go:91) and the return
UnlockConfigMu(g) ==
    /\ cfgRun.thr[g].pc = "unlock"
    /\ CfgStep(g, IdleGoroutine, [cfgRun EXCEPT !.mu = 0])
    /\ UNCHANGED <<config, configOnce>>

\* getConfig: RLock, return config, RUnlock (mint.go:104-106); no writer
\* holds configMu meanwhile
ReturnConfig(g) ==
    /\ cfgRun.thr[g].op = "getConfig"
    /\ cfgRun.thr[g].pc = "read"
    /\ cfgRun.mu = 0
    /\ CfgStep(g, IdleGoroutine, [cfgRun EXCEPT !.got = config])
    /\ UNCHANGED <<config, configOnce>>

\* a goroutine serving a request calls the Extract of a JSON, Query or Form
\* parameter, which starts with a getConfig() for the decoding
CallExtract(g) ==
    /\ cfgRun.thr[g].pc = "idle"
    /\ cfgRun.calls < MaxCfgCalls
    /\ CfgStep(g, [pc |-> "once", op |-> "Extract", arg |-> NilConfig, after |-> FALSE,
                   epoch |-> cfgRun.epoch, snap |-> NilConfig],
               [cfgRun EXCEPT !.calls = @ + 1])
    /\ UNCHANGED <<config, configOnce>>

\* Extract: the first getConfig() returns under RLock and the payload is
\* decoded with what it returned (mint.go:260, 279, 301); the second
\* getConfig() starts
DecodeWithConfig(g) ==
    /\ cfgRun.thr[g].op = "Extract"
    /\ cfgRun.thr[g].pc = "read"
    /\ cfgRun.thr[g].snap = NilConfig
    /\ cfgRun.mu = 0
    /\ CfgStep(g, [cfgRun.thr[g] EXCEPT !.pc = "once", !.snap = config], cfgRun)
    /\ UNCHANGED <<config, configOnce>>

\* Extract: the second getConfig() returns under RLock, the payload is
\* validated with what it returned (mint.go:264, 283, 305), and Extract returns
ValidateWithConfig(g) ==
    /\ cfgRun.thr[g].op = "Extract"
    /\ cfgRun.thr[g].pc = "read"
    /\ cfgRun.thr[g].snap # NilConfig
    /\ cfgRun.mu = 0
    /\ CfgStep(g, IdleGoroutine, cfgRun)
    /\ UNCHANGED <<config, configOnce>>

\* a goroutine serving a request reaches config.jsonEncode in
\* handleCommonTypes or handleError (mint.go:744, 786)
CallJSONEncode(g) ==
    /\ cfgRun.thr[g].pc = "idle"
    /\ cfgRun.calls < MaxCfgCalls
    /\ CfgStep(g, [pc |-> "encode", op |-> "jsonEncode", arg |-> NilConfig, after |-> FALSE,
                   epoch |-> cfgRun.epoch, snap |-> NilConfig],
               [cfgRun EXCEPT !.calls = @ + 1])
    /\ UNCHANGED <<config, configOnce>>

\* config.jsonEncode: the package variable is read as it is, neither through
\* getConfig nor under configMu
ReadConfigForEncode(g) ==
    /\ cfgRun.thr[g].pc = "encode"
    /\ CfgStep(g, IdleGoroutine, cfgRun)
    /\ UNCHANGED <<config, configOnce>>

NextCfg ==
    \/ \E g \in Goroutines : CallGetConfig(g)
    \/ \E g \in Goroutines : CallSetConfig(g)
    \/ \E g \in Goroutines : LockConfigMu(g)
    \/ \E g \in Goroutines : StoreConfig(g)
    \/ \E g \in Goroutines : EnterOnce(g)
    \/ \E g \in Goroutines : CheckConfigNil(g)
    \/ \E g \in Goroutines : StoreDefault(g)
    \/ \E g \in Goroutines : UnlockConfigMu(g)
    \/ \E g \in Goroutines : ReturnConfig(g)
    \/ \E g \in Goroutines : CallExtract(g)
    \/ \E g \in Goroutines : DecodeWithConfig(g)
    \/ \E g \in Goroutines : ValidateWithConfig(g)
    \/ \E g \in Goroutines : CallJSONEncode(g)
    \/ \E g \in Goroutines : ReadConfigForEncode(g)

SpecCfg == InitCfg /\ [][NextCfg]_vars

(***************************************************************************)
(* Properties of the request flow.  trace is the list of the calls made    *)
(* for the request in progress, in the order they were made.               *)
(***************************************************************************)
At(e) == {p \in DOMAIN trace : trace[p].ev = e}
ExtractAt == At("Extract")
FailedAt == {p \in ExtractAt : trace[p].err # NoErr}
FnAt == At("fn")

\* Extract is called on extractor parameters only, in increasing position,
\* and on every extractor parameter the loop has gone past
InDeclaredOrder ==
    /\ \A p \in ExtractAt :
          /\ trace[p].i \in 1..Len(fn.params)
          /\ fn.params[trace[p].i] \in ExtractorKinds
    /\ \A p, q \in ExtractAt : p < q => trace[p].i < trace[q].i
    /\ \A j \in 1..Len(fn.params) :
          (fn.params[j] \in ExtractorKinds /\ j < idx) =>
             \E p \in ExtractAt : trace[p].i = j

\* a failed Extract is followed at once by the one run of the Error
\* Classifier of the request, on the error returned, and by no other
\* Extract and no call of the function
StopsAtFirstFailure ==
    \A p \in FailedAt :
       /\ p < Len(trace)
       /\ trace[p + 1] = [ev |-> "handleError", err |-> trace[p].err]
       /\ Cardinality(At("handleError")) = 1
       /\ \A q \in ExtractAt : q <= p
       /\ FnAt = {}
       /\ pc \in {"done", "panic"}

\* the function is called at most once, with one argument bound for every
\* parameter and after every Extract succeeded
InvokedOnceAfterBinding ==
    /\ Cardinality(FnAt) <= 1
    /\ \A p \in FnAt :
          /\ Len(args) = Len(fn.params)
          /\ \A j \in 1..Len(fn.params) : args[j].kind = fn.params[j]
          /\ \A q \in ExtractAt : q < p /\ trace[q].err = NoErr

\* C1: parameters are extracted in declared order; at the first parameter
\* whose Extract fails the Error Classifier runs once and the flow stops, with
\* no later Extract and no call of the handler function; the function is
\* called at most once and only after every parameter was bound.
C1_ExtractionOrder ==
    /\ InDeclaredOrder
    /\ StopsAtFirstFailure
    /\ InvokedOnceAfterBinding

\* the first of two extractor parameters failed and the request is over
C1_Witness ==
    /\ pc = "done"
    /\ Len(fn.params) = 2
    /\ fn.params[2] \in ExtractorKinds
    /\ \E p \in FailedAt : trace[p].i = 1
    /\ At("handleError") # {}

\* the number of KeySetter parameters among the first i parameters
KeySetterRank(i) == Cardinality({j \in 1..i : fn.params[j] \in KeySetterKinds})

\* SetKey is called on KeySetter parameters only, with the name whose
\* position is the rank of the parameter among them, just before Extract
PositionalKeys ==
    /\ \A p \in At("SetKey") :
          LET i == trace[p].i
          IN  /\ fn.params[i] \in KeySetterKinds
              /\ KeySetterRank(i) <= Len(pathKeys)
              /\ trace[p].key = pathKeys[KeySetterRank(i)]
              /\ p < Len(trace)
              /\ trace[p + 1].ev = "Extract"
              /\ trace[p + 1].i = i
    /\ \A p \in ExtractAt :
          fn.params[trace[p].i] \in KeySetterKinds =>
             /\ p > 1
             /\ trace[p - 1].ev = "SetKey"
             /\ trace[p - 1].i = trace[p].i

\* a KeySetter parameter with no name left is never decoded, the flow does
\* not get past it, and the function is not called
PanicsWithoutKey ==
    \A j \in 1..Len(fn.params) :
       (pc \notin {"unwrapped", "wrap panic", "idle"}
        /\ fn.params[j] \in KeySetterKinds
        /\ KeySetterRank(j) > Len(pathKeys)) =>
          /\ \A p \in ExtractAt : trace[p].i # j
          /\ FnAt = {}
          /\ idx <= j
          /\ (idx = j /\ pc # "params") =>
                /\ pc = "panic"
                /\ trace[Len(trace)] = [ev |-> "panic", why |-> "insufficient path parameters"]

\* C8: the k-th KeySetter parameter receives the k-th name parsed from the
\* pattern before its Extract is called; other parameters consume no name;
\* with no k-th name the flow panics before the parameter is decoded and the
\* handler is not invoked.
C8_PositionalPathNames ==
    /\ PositionalKeys
    /\ PanicsWithoutKey

\* a Path parameter declared after the request received the first name of a
\* pattern with two names
C8_Witness ==
    /\ fn.params = <<"Request", "Path">>
    /\ Len(pathKeys) = 2
    /\ pathKeys[1] # pathKeys[2]
    /\ \E p \in At("SetKey") : trace[p].i = 2 /\ trace[p].key = pathKeys[1]
    /\ \E p \in ExtractAt : trace[p].i = 2

\* the status and tag fixed for every kind of extraction failure
FixedPair(kind) ==
    CASE kind = "body_read_error" -> <<500, "internal_server_error">>
      [] kind = "empty_body" -> <<400, "empty_body">>
      [] kind = "form_parse_error" -> <<400, "invalid_form">>
      [] kind = "path_conversion_error" -> <<400, "invalid_path_parameter">>
      [] kind = "missing_path_value" -> <<400, "missing_path_parameter">>
      [] kind = "validation_error" -> <<400, "validation_failed">>
      [] OTHER -> <<400, kind>>

\* an extraction failure: a non-nil *ExtractError returned by Extract
IsExtractionFailure(e) == e.t = "*ExtractError" /\ ~IsNilPtr(e)

\* the chain of the causes wrapped by an error holds an HTTPError
RECURSIVE WrapsHTTPError(_)
WrapsHTTPError(e) ==
    /\ "Err" \in DOMAIN e
    /\ e.t \notin {"*HTTPError", "HTTPError"}
    /\ e.Err # NoErr
    /\ \/ e.Err.t \in {"*HTTPError", "HTTPError"}
       \/ WrapsHTTPError(e.Err)

\* the Error Classifier, run with no hook installed on the error of the
\* failed Extract of the request, yielded the pair fixed for its kind, and
\* the status of the pair is the one committed
YieldsFixedPair(p) ==
    LET pair == FixedPair(trace[p].err.Type)
    IN  /\ \E q \in At("toHTTPError") :
              /\ q > p
              /\ trace[q].out.Code = pair[1]
              /\ trace[q].out.Err = pair[2]
        /\ headerWritten
        /\ statusCode = pair[1]
        /\ under.codes = <<pair[1]>>

\* C2 as stated: with no custom error hook installed, every extraction
\* failure of kind K is classified as the status/tag pair fixed for K, and that
\* status is the one committed on the response of the request.
C2_FixedPairs ==
    \A p \in FailedAt :
       (IsExtractionFailure(trace[p].err) /\ At("CustomErrorHandler") = {}) =>
          YieldsFixedPair(p)

\* C2 amended: with no custom error hook installed, every extraction failure
\* of kind K whose chain of wrapped causes holds no HTTPError is classified as
\* the status/tag pair fixed for K, and that status is the one committed on the
\* response of the request.
C2_FixedPairsWithoutHTTPCause ==
    \A p \in FailedAt :
       (/\ IsExtractionFailure(trace[p].err)
        /\ ~WrapsHTTPError(trace[p].err)
        /\ At("CustomErrorHandler") = {}) =>
          YieldsFixedPair(p)

\* a body-read failure whose cause is no HTTPError committed 500
C2_Witness ==
    /\ At("CustomErrorHandler") = {}
    /\ \E p \in FailedAt :
          /\ IsExtractionFailure(trace[p].err)
          /\ trace[p].err.Type = ErrTypeBodyRead
          /\ ~WrapsHTTPError(trace[p].err)
    /\ statusCode = 500
    /\ under.codes = <<500>>

(***************************************************************************)
(* Properties of the routing of the values returned, stated on the step    *)
(* that routes them: the calls it adds to trace and what it writes.        *)
(***************************************************************************)
NewCalls == SubSeq(trace', Len(trace) + 1, Len(trace'))
NewChunks == SubSeq(under'.body, Len(under.body) + 1, Len(under'.body))
WritesNothing == statusCode' = statusCode /\ headerWritten' = headerWritten /\ under' = under
CallsOf(e) == {p \in DOMAIN NewCalls : NewCalls[p].ev = e}

\* a nil value of a nil-able type: a nil interface, or a nil pointer, slice or
\* function in a slot of that very type
NilOfType(v, type) == v = NilVal \/ (IsNilPtr(v) /\ v.t = type)

RoutesOneResult == pc = "results" /\ Len(results) = 1 /\ pc' \in {"done", "panic"}
RoutesTwoResults == pc = "results" /\ Len(results) = 2 /\ pc' \in {"done", "panic"}

\* headers, then code, then Err or Data
UnwrapsResult(rv) ==
    /\ Len(NewCalls) >= 2
    /\ NewCalls[1] = [ev |-> "handleResult"]
    /\ NewCalls[2] = (IF rv.Err # NoErr THEN [ev |-> "handleError", err |-> rv.Err]
                      ELSE [ev |-> "handleCommonTypes", data |-> rv.Data])
    /\ rv.Headers # NoHeaders =>
          \A k \in DOMAIN rv.Headers :
             SubSeq(under'.hdr[k], 1, Len(under.hdr[k]) + Len(rv.Headers[k]))
                = under.hdr[k] \o rv.Headers[k]
    /\ (rv.Code # 0 /\ ~headerWritten) =>
          /\ Len(under'.codes) > Len(under.codes)
          /\ under'.codes[Len(under.codes) + 1] = (IF rv.Code > 0 THEN rv.Code ELSE StatusOK)

OneResultRouted ==
    RoutesOneResult =>
       LET rv == results[1]
       IN  IF NilOfType(rv, fn.outs[1]) THEN WritesNothing /\ NewCalls = <<>>
           ELSE IF rv.t \in HandlerTypes
           THEN /\ NewCalls = <<[ev |-> "ServeHTTP"]>>
                /\ \A c \in DOMAIN NewChunks : NewChunks[c].by = "user"
           ELSE IF rv.t = "Result" THEN UnwrapsResult(rv)
           ELSE IF rv.t \in ErrorTypes
           THEN /\ NewCalls # <<>>
                /\ NewCalls[1] = [ev |-> "handleError", err |-> rv]
                /\ CallsOf("handleCommonTypes") = {}
           ELSE /\ NewCalls # <<>>
                /\ NewCalls[1] = [ev |-> "handleCommonTypes", data |-> rv]
                /\ CallsOf("handleError") = {}

\* C6: a single return value is routed, in this order: a nil value of a
\* nil-able type writes nothing; an http.Handler is handed the writer and the
\* adapter writes nothing else, before the error and Result checks; a Result is
\* unwrapped (headers, code, then Err or Data); an error goes to the Error
\* Classifier; any other value goes to the Response Classifier.
C6_OneResultRouting == [][OneResultRouted]_vars

\* a value that is both an error and an http.Handler was handed the writer
C6_Witness ==
    /\ pc = "done"
    /\ results = <<HandlerErrorVal>>
    /\ trace = <<[ev |-> "fn"], [ev |-> "ServeHTTP"]>>

TwoResultsRouted ==
    RoutesTwoResults =>
       LET data == results[1]
           err == results[2]
       IN  IF NilOfType(data, fn.outs[1]) /\ NilOfType(err, fn.outs[2])
           THEN WritesNothing /\ NewCalls = <<>>
           ELSE IF ~NilOfType(err, fn.outs[2])
           THEN /\ NewCalls # <<>>
                /\ NewCalls[1] = [ev |-> "handleError", err |-> err]
                /\ CallsOf("handleCommonTypes") = {}
           ELSE /\ NewCalls # <<>>
                /\ NewCalls[1] = [ev |-> "handleCommonTypes", data |-> data]
                /\ CallsOf("handleError") = {}

\* C5: of two return values (data, err), nothing is written when both are
\* nil; otherwise a non-nil error goes through the Error Classifier and the data
\* is discarded; otherwise the data goes through the Response Classifier.
C5_TwoResultsRouting == [][TwoResultsRouted]_vars

ContentType == "Content-Type"

\* no body and no Content-Type from the classifier
NoBody == under'.body = under.body /\ under'.hdr[ContentType] = under.hdr[ContentType]

\* the Content-Type is ct and the one chunk written is v in the encoding enc
Body(ct, enc, v) ==
    /\ under'.hdr[ContentType] = <<ct>>
    /\ under'.body = Append(under.body, [by |-> "adapter", enc |-> enc, v |-> v])

\* the outcome of the first matching rule for the payload data; direct tells
\* that the payload came straight from the function, not out of a Result
Outcome(data, direct) ==
    IF data = NilVal THEN NoBody
    ELSE IF data.t \in ResponderTypes
    THEN /\ CallsOf("Respond") # {}
         /\ \A c \in DOMAIN NewChunks : NewChunks[c].by = "user"
         /\ under'.hdr = under.hdr
    ELSE IF data.t = "StatusCode"
    THEN /\ NoBody
         /\ (direct /\ ~headerWritten) =>
               /\ statusCode' = (IF data.v > 0 THEN data.v ELSE StatusOK)
               /\ under'.codes = Append(under.codes, statusCode')
    ELSE IF data.t = "string" THEN Body("text/plain; charset=utf-8", "text", data.v)
    ELSE IF data.t = "[]byte" THEN Body("application/octet-stream", "bytes", data.v)
    ELSE IF data.t \in {"HTML", "template.HTML"}
    THEN Body("text/html; charset=utf-8", "text", data.v)
    ELSE IF data.t \in ReaderTypes
    THEN /\ under'.hdr = under.hdr
         /\ under'.body = (IF data.v = "" THEN under.body
                           ELSE Append(under.body,
                                       [by |-> "adapter", enc |-> "copy", v |-> data.v]))
    ELSE Body("application/json; charset=utf-8", "json", data)

PayloadClassified ==
    (pc = "results" /\ pc' \in {"done", "panic"}) =>
       \A p \in CallsOf("handleCommonTypes") : Outcome(NewCalls[p].data, p = 1)

\* C7: handleCommonTypes maps a payload to the outcome of the first matching
\* rule: nil, no body; Responder, delegated; StatusCode, only the status;
\* string, text/plain; []byte, application/octet-stream; HTML, text/html;
\* io.Reader, copied with no Content-Type; anything else, application/json and
\* the JSON encoding.
C7_ResponseClassifier == [][PayloadClassified]_vars

\* the Result returned carries a failure, a code WriteHeader takes as it is,
\* and meets no custom error handler and no status committed by the function
FailureEnvelope(rv) ==
    /\ rv.t = "Result"
    /\ rv.Err # NoErr
    /\ rv.Code >= 0
    /\ CustomErrorHandler = Nil
    /\ ~headerWritten

FailureWins ==
    (RoutesOneResult /\ FailureEnvelope(results[1])) =>
       LET rv == results[1]
       IN  /\ \A c \in DOMAIN NewChunks : NewChunks[c].v # rv.Data
           /\ \E p \in CallsOf("toHTTPError") :
                 NewChunks = <<[by |-> "adapter", enc |-> "json", v |-> NewCalls[p].out]>>
           /\ rv.Code # 0 => statusCode' = rv.Code

\* C3: for a Result whose Err is non-nil the Data is never serialized: the
\* body written is the structured-error JSON of Err, and a non-zero Code is the
\* status committed.
C3_FailureWins == [][FailureWins]_vars

(***************************************************************************)
(* The custom error hook.                                                  *)
(***************************************************************************)
\* the writer as some run of the hook alone leaves it, starting from w
HookAlone(w) ==
    \E script \in Scripts :
       LET after == RunScript([w |-> w, trace |-> <<>>, panic |-> FALSE], script).w
       IN  /\ statusCode' = after.statusCode
           /\ headerWritten' = after.headerWritten
           /\ under' = after.under

\* the writer as the step found it, after the headers and the code of the
\* Result when the failure is the Err of a Result
BeforeClassifier ==
    IF pc = "results" /\ Len(results) = 1 /\ results[1].t = "Result"
    THEN handleResult([w |-> World, trace |-> <<>>, panic |-> FALSE],
                      [results[1] EXCEPT !.Err = NoErr, !.Data = NilVal], <<>>).w
    ELSE World

HookTakesOver ==
    (CustomErrorHandler # Nil /\ CallsOf("handleError") # {}) =>
       /\ Cardinality(CallsOf("handleError")) = 1
       /\ Cardinality(CallsOf("CustomErrorHandler")) = 1
       /\ \A p \in CallsOf("handleError") :
             /\ Len(NewCalls) = p + 1
             /\ NewCalls[p + 1] = [ev |-> "CustomErrorHandler", err |-> NewCalls[p].err]
       /\ CallsOf("toHTTPError") = {}
       /\ \A c \in DOMAIN NewChunks : NewChunks[c].by = "user"
       /\ under'.hdr[ContentType] = under.hdr[ContentType]
       /\ HookAlone(BeforeClassifier)

\* C11: with a custom error hook installed, a failure that reaches the Error
\* Classifier is passed to the hook exactly once, and the classifier sets no
\* header, commits no status and writes no body of its own.
C11_HookTakesOver == [][HookTakesOver]_vars

\* the hook answered a failed extraction with a status of its own
C11_Witness ==
    /\ pc = "done"
    /\ FailedAt # {}
    /\ At("CustomErrorHandler") # {}
    /\ statusCode = 418
    /\ under.body = <<>>

\* C13: the configuration is lazily defaulted on first access: in every
\* request flow, the first request of a process that never set a configuration
\* included, each use of the configuration finds a non-nil configuration, so
\* no request ends in the dereference of a nil *Config.
C13_LazyDefault ==
    \A p \in At("panic") : trace[p].why # "nil config"

(***************************************************************************)
(* What H rejects, and when.                                               *)
(***************************************************************************)
\* the signatures H must reject while wrapping
BadSignature(f) ==
    \/ ~f.isFunc
    \/ Len(f.outs) > 2
    \/ /\ Len(f.outs) = 1
       /\ f.outs[1] \in InterfaceTypes
       /\ \A iface \in {"error", "http.Handler", "io.Reader"} : ~TypeImplements(f.outs[1], iface)
    \/ /\ Len(f.outs) = 2
       /\ \/ f.outs[1] \in InterfaceTypes
          \/ f.outs[1] = "Result"
          \/ ~TypeImplements(f.outs[2], "error")

\* C14: H panics while wrapping, and no request is ever served, when its
\* argument is not a function, has more than 2 results, has a single result of
\* an interface type implementing none of error, http.Handler, io.Reader, or
\* has two results of which the first is an interface or a Result or the second
\* does not implement error.
C14_WrapPanics ==
    (pc # "unwrapped" /\ BadSignature(fn)) =>
       /\ pc = "wrap panic"
       /\ req = NoRequest
       /\ trace = <<>>

\* H panicked on a function returning a Result and an error
C14_Witness ==
    /\ pc = "wrap panic"
    /\ fn.isFunc
    /\ fn.outs = <<"Result", "error">>

\* the positions of the parameters that are neither an Extractor, nor the
\* http.ResponseWriter interface, nor *http.Request
UnsupportedAt(f) ==
    {j \in 1..Len(f.params) :
        f.params[j] \notin ExtractorKinds \cup {"ResponseWriter", "Request"}}

ValidatingKinds == {"JSON", "Query", "Form"}

\* the configuration has validation enabled and a validator
ValidationOn(cfg) == cfg # NilConfig /\ cfg.EnableValidation /\ cfg.Validator

\* the step decodes the payload of a JSON, Query or Form parameter that
\* violates a rule, and nothing fails before the validator's turn
DecodesViolation ==
    /\ pc = "params"
    /\ idx <= Len(fn.params)
    /\ fn.params[idx] \in ValidatingKinds
    /\ NewCalls # <<>>
    /\ NewCalls[1].ev = "Extract"
    /\ NewCalls[1].payload = "violates"

ValidationFollowsConfig ==
    DecodesViolation =>
       IF ValidationOn(config')
       THEN /\ NewCalls[1].err.t = "*ExtractError"
            /\ NewCalls[1].err.Type = "validation_error"
            /\ pc' = "done"
            /\ FnAt = {}
            /\ CustomErrorHandler = Nil =>
                  /\ \E p \in CallsOf("toHTTPError") :
                        /\ NewCalls[p].out.Code = 400
                        /\ NewCalls[p].out.Err = "validation_failed"
                  /\ statusCode' = 400
                  /\ under'.codes = <<400>>
       ELSE /\ NewCalls[1].err = NoErr
            /\ pc' = "params"
            /\ idx' = idx + 1
            /\ Len(args') = Len(args) + 1

\* C16: after any sequence of configuration replacements, a JSON, Query or
\* Form extraction runs the validator iff the configuration installed has
\* validation enabled and a validator: a payload violating a rule then fails
\* with kind validation_error, answered 400/validation_failed; with validation
\* disabled the same payload is extracted and the flow goes on to the handler.
C16_ValidationFollowsConfig == [][ValidationFollowsConfig]_vars

\* with validation disabled a violating payload was extracted and the
\* handler function was called
C16_Witness ==
    /\ ~ValidationOn(config)
    /\ FnAt # {}
    /\ \E p \in ExtractAt :
          /\ fn.params[trace[p].i] \in ValidatingKinds
          /\ trace[p].payload = "violates"
          /\ trace[p].err = NoErr

(***************************************************************************)
(* Write and non-positive codes on the wrapper.                            *)
(***************************************************************************)
\* the step is a call of Write on the wrapper driven directly
WriteCalled ==
    /\ Len(rwCalls') = Len(rwCalls) + 1
    /\ rwCalls'[Len(rwCalls')].op = "Write"

WriteCommitsFirst ==
    WriteCalled =>
       /\ headerWritten'
       /\ under'.body = Append(under.body, rwCalls'[Len(rwCalls')].arg)
       /\ IF ~headerWritten
          THEN /\ statusCode' = 200
               /\ under'.codes = Append(under.codes, 200)
               /\ under'.calls = under.calls \o <<"WriteHeader", "Write">>
          ELSE /\ statusCode' = statusCode
               /\ under'.codes = under.codes
               /\ under'.calls = Append(under.calls, "Write")

\* C17: Write on the wrapper while no status is committed first commits 200
\* (statusCode 200, headerWritten, WriteHeader(200) forwarded) and only then
\* writes the bytes; a Write after a status was committed leaves the status.
C17_WriteCommitsOK == [][WriteCommitsFirst]_vars

\* a first Write committed 200 before its bytes went out
C17_Witness ==
    /\ rwCalls = <<[op |-> "Write", arg |-> "a"]>>
    /\ statusCode = 200
    /\ headerWritten
    /\ under.codes = <<200>>
    /\ under.calls = <<"WriteHeader", "Write">>

\* the code the step hands to WriteHeader first, when the value returned is
\* a StatusCode or a Result with a code
HandedCode ==
    IF results[1].t = "StatusCode" THEN results[1].v ELSE results[1].Code

NonPositiveCommitsOK ==
    (/\ RoutesOneResult
     /\ results[1].t \in {"StatusCode", "Result"}
     /\ HandedCode # 0 \/ results[1].t = "StatusCode"
     /\ HandedCode <= 0
     /\ ~headerWritten) =>
        /\ headerWritten'
        /\ statusCode' = 200
        /\ under'.codes = Append(under.codes, 200)

\* C18: with no status committed yet, WriteHeader(code) with code <= 0 commits
\* 200 in the wrapper and on the underlying writer; so a handler returning
\* StatusCode(0), or a Result with a negative Code, produces status 200.
C18_NonPositiveCommitsOK == [][NonPositiveCommitsOK]_vars

\* a Result with Code -1 and nothing to write committed 200
C18_Witness ==
    /\ pc = "done"
    /\ Len(results) = 1
    /\ results[1].t = "Result"
    /\ results[1].Code = -1
    /\ results[1].Data = NilVal
    /\ results[1].Err = NoErr
    /\ statusCode = 200
    /\ under.codes = <<200>>
    /\ under.body = <<>>

(***************************************************************************)
(* A Result with Code 0 and no failure.                                    *)
(***************************************************************************)
\* the step routes a Result with Code 0 and no Err, no status committed yet
RoutesPlainResult ==
    /\ RoutesOneResult
    /\ results[1].t = "Result"
    /\ results[1].Code = 0
    /\ results[1].Err = NoErr
    /\ ~headerWritten

\* the status of the response is 200: the one committed, or the one the
\* transport sends when none was committed
AnswersOK == headerWritten' => (statusCode' = 200 /\ under'.codes = <<200>>)

\* C19 as stated: a Result with Code 0 and no failure results in status 200
\* for every payload.
C19_ZeroCodeIsOK == [][RoutesPlainResult => AnswersOK]_vars

PlainResultRouted ==
    RoutesPlainResult =>
       LET data == results[1].Data
       IN  IF data = NilVal THEN WritesNothing
           ELSE IF data.t = "StatusCode"
           THEN /\ statusCode' = (IF data.v > 0 THEN data.v ELSE 200)
                /\ under'.codes = <<statusCode'>>
                /\ under'.body = under.body
           ELSE IF data.t \in ResponderTypes
           THEN \A c \in DOMAIN NewChunks : NewChunks[c].by = "user"
           ELSE /\ AnswersOK
                /\ NewChunks # <<>> =>
                      under'.calls = under.calls \o <<"WriteHeader", "Write">>

\* C19 amended: a Result with Code 0 and no failure never passes Code to
\* WriteHeader; for a payload that is neither a StatusCode nor a Responder the
\* status becomes 200 when the payload is written, and a nil payload commits
\* nothing; a StatusCode payload commits its own value, a Responder payload
\* what its Respond method commits.
C19_ZeroCodeLeavesStatusToPayload == [][PlainResultRouted]_vars

\* the payload of a Result with Code 0 was written under status 200
C19_Witness ==
    /\ pc = "done"
    /\ Len(results) = 1
    /\ results[1].t = "Result"
    /\ results[1].Code = 0
    /\ results[1].Err = NoErr
    /\ results[1].Data = Str("X")
    /\ statusCode = 200
    /\ under.calls = <<"WriteHeader", "Write">>
    /\ under.body = <<[by |-> "adapter", enc |-> "text", v |-> "X"]>>


(***************************************************************************)
(* Path[T].Extract applied once to a receiver of each parameter type, with *)
(* either the zero value or an earlier value in Value, and to each path    *)
(* value of a bounded set.                                                 *)
(***************************************************************************)
\* the types that satisfy the constraint PathValue (mint.go:238-240): the
\* seven of the type switch and the defined types over them, of which Slug
\* (type Slug string) stands for all
PathTypes == PathSwitchTypes \cup {"Slug"}

PathKeyNames == {"id", "slug"}

PathChars == {"0", "1", "2", "4", "+", "-", ".", "e", "x", "t"}

PathWords ==
    {<<"t","r","u","e">>, <<"f","a","l","s","e">>, <<"T","r","u","e">>, <<"T","R","U","E">>,
     <<"F","a","l","s","e">>, <<"F","A","L","S","E">>, <<"T">>, <<"F">>, <<"f">>,
     <<"y","e","s">>, <<"-","1",".","5","0">>, <<"1","E","+","2">>}

\* the values of r.PathValue(p.Key); the empty text is what an absent
\* segment gives
PathValues == SeqsUpTo(PathChars, MaxPathLen) \cup PathWords

\* the values a receiver holds before Extract: the zero value or an earlier one
EarlierValues(T) ==
    CASE T \in {"string", "Slug"} -> {<<>>, <<"o","l","d">>}
      [] T = "float64" -> {Float(0, 0), Float(25, -1)}
      [] T = "bool" -> {FALSE, TRUE}
      [] OTHER -> {0, 7}

InitPath ==
    /\ statusCode = 0
    /\ headerWritten = FALSE
    /\ under = FreshUnder
    /\ config = NilConfig
    /\ configOnce = FALSE
    /\ CustomErrorHandler = Nil
    /\ rwCalls = <<>>
    /\ CfgIdle
    /\ ScanIdle
    /\ ClsIdle
    /\ FlowIdle
    /\ \E T \in PathTypes, key \in PathKeyNames, pv \in PathValues :
          \E v \in EarlierValues(T) :
             pathRun = [T |-> T, p |-> [Key |-> key, Value |-> v], pv |-> pv,
                        before |-> v, err |-> Pending, pc |-> "ready"]

\* err := p.Extract(r)
ExtractPath ==
    /\ pathRun.T # "none"
    /\ pathRun.pc = "ready"
    /\ LET r == PathExtractOf(pathRun.T, pathRun.p, pathRun.pv)
       IN  pathRun' = [pathRun EXCEPT !.p = r.p, !.err = r.err, !.pc = "done"]
    /\ UNCHANGED <<rwVars, cfgVars, rwCalls, cfgRun, scanVars, clsVars, flowVars>>

NextPath == ExtractPath

SpecPath == InitPath /\ [][NextPath]_vars

(***************************************************************************)
(* C12.  Once SetConfig(cfg) with a non-nil cfg has returned, every later  *)
(* getConfig() returns cfg until the next SetConfig with a non-nil         *)
(* argument, under every interleaving, including one with a goroutine that *)
(* is inside the lazy one-time default initialization.                     *)
(***************************************************************************)
\* goroutine g returns from getConfig in this step
GetConfigReturns(g) ==
    /\ cfgRun.thr[g].op = "getConfig"
    /\ cfgRun.thr[g].pc = "read"
    /\ cfgRun'.thr[g].pc = "idle"

\* the call of g was made after a SetConfig(non-nil) returned, and no other
\* SetConfig(non-nil) has been invoked since
AfterReplacement(g) ==
    /\ cfgRun.thr[g].after
    /\ cfgRun.thr[g].epoch = cfgRun.epoch

ReplacementEffective ==
    \A g \in Goroutines :
        GetConfigReturns(g) /\ AfterReplacement(g) => cfgRun'.got = cfgRun.lastSet

C12_ReplacementEffective == [][ReplacementEffective]_vars

(***************************************************************************)
(* C20.  Path[T].Extract, for T one of string, int, int64, uint, uint64,   *)
(* float64 and bool: an absent or empty path value fails with kind         *)
(* missing_path_value; otherwise a text that parses into T (base 10 for    *)
(* the integers, the standard literals for bool) sets Value to the parsed  *)
(* value and nil is returned ("42" gives 42, "true" and "false" give true  *)
(* and false); otherwise it fails with kind path_conversion_error carrying *)
(* the key and the raw text (Path[bool] on "yes"); Value is left unchanged *)
(* on every failure.                                                       *)
(***************************************************************************)
PathExtracted(T, pv) ==
    /\ pathRun.T = T
    /\ pathRun.pc = "done"
    /\ pathRun.pv = pv

PathFails(kind) ==
    /\ pathRun.err # NoErr
    /\ pathRun.err.t = "*ExtractError"
    /\ pathRun.err.Type = kind
    /\ pathRun.err.Field = pathRun.p.Key
    /\ pathRun.p.Value = pathRun.before

PathSets(v) ==
    /\ pathRun.err = NoErr
    /\ pathRun.p.Value = v

Text42 == <<"4", "2">>
TextTrue == <<"t","r","u","e">>
TextFalse == <<"f","a","l","s","e">>
TextYes == <<"y","e","s">>

PathExamples ==
    /\ \A T \in {"int", "int64", "uint", "uint64"} : PathExtracted(T, Text42) => PathSets(42)
    /\ PathExtracted("float64", Text42) => PathSets(Float(42, 0))
    /\ PathExtracted("string", Text42) => PathSets(Text42)
    /\ PathExtracted("bool", TextTrue) => PathSets(TRUE)
    /\ PathExtracted("bool", TextFalse) => PathSets(FALSE)
    /\ PathExtracted("bool", TextYes) =>
          PathFails(ErrTypePathConversion) /\ pathRun.err.Value = TextYes
    /\ \A T \in {"uint", "uint64"} :
          PathExtracted(T, <<"-", "1">>) => PathFails(ErrTypePathConversion)
    /\ PathExtracted("int", <<"-", "1">>) => PathSets(0 - 1)

C20_PathExtract ==
    (pathRun.T \in PathSwitchTypes /\ pathRun.pc = "done") =>
        /\ IF pathRun.pv = <<>>
           THEN PathFails(ErrTypeMissingPath)
           ELSE IF Converted(pathRun.T, pathRun.pv).ok
           THEN PathSets(Converted(pathRun.T, pathRun.pv).val)
           ELSE PathFails(ErrTypePathConversion) /\ pathRun.err.Value = pathRun.pv
        /\ PathExamples

\* Path[bool] holding true is given "yes": the conversion fails and Value is
\* still true
C20_Witness ==
    /\ PathExtracted("bool", TextYes)
    /\ pathRun.before = TRUE
    /\ pathRun.p.Value = TRUE
    /\ pathRun.err # NoErr
    /\ pathRun.err.Type = ErrTypePathConversion

(***************************************************************************)
(* C27.  In every state of the wrapper reachable by WriteHeader and Write  *)
(* calls: headerWritten is true iff statusCode is non-zero, a committed    *)
(* statusCode is strictly positive, and WriteHeader was forwarded to the   *)
(* underlying writer at most once, with exactly the committed statusCode.  *)
(***************************************************************************)
ForwardedHeaders == Len(SelectSeq(under.calls, LAMBDA c : c = "WriteHeader"))

C27_WrapperConsistent ==
    /\ headerWritten <=> statusCode # 0
    /\ headerWritten => statusCode > 0
    /\ ForwardedHeaders <= 1
    /\ ForwardedHeaders = Len(under.codes)
    /\ under.codes = IF headerWritten THEN <<statusCode>> ELSE <<>>

\* WriteHeader(-1), a Write and WriteHeader(500) have forwarded one
\* WriteHeader, with 200
C27_Witness ==
    /\ Len(rwCalls) = 3
    /\ rwCalls[1] = [op |-> "WriteHeader", arg |-> 0 - 1]
    /\ rwCalls[2].op = "Write"
    /\ rwCalls[3] = [op |-> "WriteHeader", arg |-> 500]
    /\ headerWritten
    /\ statusCode = 200
    /\ under.codes = <<200>>
    /\ ForwardedHeaders = 1

(***************************************************************************)
(* C30.  SetConfig(nil) never replaces or alters an installed              *)
(* configuration: it installs the default only when no configuration       *)
(* exists yet, and in every other state (after the lazy default was        *)
(* created or after a SetConfig with a non-nil argument) it leaves the     *)
(* current configuration unchanged.                                        *)
(***************************************************************************)
\* goroutine g is inside SetConfig(nil)
InSetConfigNil(g) ==
    /\ cfgRun.thr[g].op = "SetConfig"
    /\ cfgRun.thr[g].arg = NilConfig

\* this step is one of goroutine g
StepOf(g) == cfgRun'.thr[g] # cfgRun.thr[g]

SetConfigNilKeeps ==
    \A g \in Goroutines :
        InSetConfigNil(g) /\ StepOf(g) =>
            IF config = NilConfig
            THEN config' \in {NilConfig, DefaultConfig}
            ELSE config' = config

C30_SetConfigNilKeeps == [][SetConfigNilKeeps]_vars

\* SetConfig(nil) has gone through initDefaultConfig and is about to return,
\* and the configuration is the custom one installed before
C30_Witness ==
    \E g \in Goroutines :
        /\ InSetConfigNil(g)
        /\ cfgRun.thr[g].pc = "unlock"
        /\ cfgRun.lastSet # NilConfig
        /\ config = cfgRun.lastSet
        /\ config.id = "custom"

(***************************************************************************)
(* C22 as stated: for every extraction-failure kind, body-read included,   *)
(* the message of the structured error produced by the Error Classifier is *)
(* the message carried by the extraction failure itself.                   *)
(***************************************************************************)
Classified == clsOut # Pending

C22_MessageCarried ==
    (IsExtractionFailure(clsErr) /\ Classified) =>
        /\ "Message" \in DOMAIN clsOut
        /\ clsOut.Message = clsErr.Message

\* C22 amended: for every extraction failure whose chain of wrapped causes
\* holds no HTTPError, the message of the structured error is the message
\* carried by the extraction failure, except for the body-read kind, whose
\* structured error always has the message "unable to process request".
C22_MessageCarriedButBodyRead ==
    (IsExtractionFailure(clsErr) /\ ~WrapsHTTPError(clsErr) /\ Classified) =>
        /\ "Message" \in DOMAIN clsOut
        /\ clsOut.Message = IF clsErr.Type = ErrTypeBodyRead
                            THEN <<"u","n","a","b","l","e"," ","t","o"," ","p","r","o","c","e","s","s",
                                   " ","r","e","q","u","e","s","t">>
                            ELSE clsErr.Message

\* the failure made by NewBodyReadError was classified: its own message,
\* "failed to read request body", is not the one of the structured error
C22_Witness ==
    /\ clsErr = NewBodyReadError(PlainError(KwTimeout))
    /\ Classified
    /\ clsOut.Code = 500
    /\ clsOut.Message # clsErr.Message

(***************************************************************************)
(* C24.  toHTTPError is a function of the error that resolves in a fixed   *)
(* order: nil gives nil; an HTTPError (pointer or value) found anywhere in *)
(* the unwrap chain is returned with its code, tag and message unchanged,  *)
(* before any extraction-failure mapping (an ExtractError wrapping an      *)
(* HTTPError is classified as that HTTPError); then an ExtractError is     *)
(* mapped by kind; then the known JSON and schema decode error shapes map  *)
(* to 400; message inference applies only when none of these matched.      *)
(* The errors are those whose chain holds no nil *ExtractError, on which   *)
(* Unwrap does not return.                                                 *)
(***************************************************************************)
\* the first error of the unwrap chain of e whose dynamic type is in types
RECURSIVE FirstOfChain(_, _)
FirstOfChain(e, types) ==
    IF e = NoErr THEN NotFound
    ELSE IF e.t \in types THEN e
    ELSE IF e.t \in {"*ExtractError", "*fmt.wrapError"} /\ ~IsNilPtr(e)
    THEN FirstOfChain(e.Err, types)
    ELSE NotFound

RECURSIVE HoldsNilExtractError(_)
HoldsNilExtractError(e) ==
    /\ e # NoErr
    /\ \/ e.t = "*ExtractError" /\ IsNilPtr(e)
       \/ /\ e.t \in {"*ExtractError", "*fmt.wrapError"}
          /\ ~IsNilPtr(e)
          /\ HoldsNilExtractError(e.Err)

DecodeShapeTags ==
    [t \in {"*json.UnmarshalTypeError", "*json.SyntaxError", "schema.MultiError",
            "*schema.ConversionError", "*schema.UnknownKeyError"} |->
        CASE t = "*json.UnmarshalTypeError" -> "invalid_json_type"
          [] t = "*json.SyntaxError" -> "invalid_json_syntax"
          [] t = "schema.MultiError" -> "validation_failed"
          [] t = "*schema.ConversionError" -> "conversion_failed"
          [] t = "*schema.UnknownKeyError" -> "unknown_field"]

ResolvedInOrder(e, out) ==
    LET http == FirstOfChain(e, {"*HTTPError", "HTTPError"})
        extract == FirstOfChain(e, {"*ExtractError"})
    IN  IF e = NoErr THEN out = ResNil
        ELSE IF http # NotFound
        THEN IF IsNilPtr(http) THEN out = ResNil
             ELSE out = [Code |-> http.Code, Err |-> http.Err, Message |-> http.Message]
        ELSE IF extract # NotFound
        THEN /\ out \notin {ResNil, ResPanic}
             /\ <<out.Code, out.Err>> = FixedPair(extract.Type)
        ELSE IF e.t \in DOMAIN DecodeShapeTags
        THEN /\ out \notin {ResNil, ResPanic}
             /\ out.Code = 400
             /\ out.Err = DecodeShapeTags[e.t]
        ELSE /\ out \notin {ResNil, ResPanic}
             /\ out.Code = EarliestStatus(ErrorText(e))
             /\ out.Err = CanonicalTag(out.Code)

DoubleError(f) ==
    /\ f.isFunc
    /\ Len(f.outs) = 2
    /\ f.outs[1] \notin InterfaceTypes
    /\ TypeImplements(f.outs[1], "error")

C23_DoubleErrorRejected ==
    (pc # "unwrapped" /\ DoubleError(fn)) =>
       /\ pc = "wrap panic"
       /\ req = NoRequest
       /\ trace = <<>>

(***************************************************************************)
(* C25.  Whenever the adapter itself writes a structured-error JSON body   *)
(* (no custom hook installed), the code field of that body equals the      *)
(* status committed on the response, for every way the error can arise:    *)
(* an extraction failure, an error returned by the function, and a Result  *)
(* carrying both a non-zero Code and a non-nil Err.                        *)
(***************************************************************************)
\* the structured errors among the JSON bodies written by the adapter: the
\* values toHTTPError returned in this request
StructuredErrorBodies ==
    {c \in DOMAIN under.body :
        /\ under.body[c].by = "adapter"
        /\ under.body[c].enc = "json"
        /\ \E p \in At("toHTTPError") : trace[p].out = under.body[c].v}

C25_BodyCodeIsStatus ==
    \A c \in StructuredErrorBodies : under.body[c].v.Code = statusCode

(***************************************************************************)
(* C26.  In every request flow the adapter sets response headers (the      *)
(* Content-Type chosen by the Response or Error Classifier, and the extra  *)
(* headers of a Result) only while the status of the wrapper is still      *)
(* uncommitted, so that every such header is part of the committed         *)
(* response head; in particular the Content-Type of a Result with a        *)
(* non-zero Code is set before its status is committed.                    *)
(***************************************************************************)
C26_HeadersBeforeStatus == under.late = {}

(***************************************************************************)
(* C28.  Every routing decision treats a nil pointer, map or slice like an *)
(* untyped nil: of two results whose error slot has a concrete pointer     *)
(* type, a nil error with a non-nil data value routes the data through the *)
(* Response Classifier (it is not discarded and the Error Classifier is    *)
(* not run), and a Result whose Data is a nil pointer, map or slice writes *)
(* no body.                                                                *)
(***************************************************************************)
\* a nil pointer in an error slot of a concrete pointer type, next to data
NilTypedError ==
    /\ RoutesTwoResults
    /\ fn.outs[2] \notin InterfaceTypes
    /\ IsNilPtr(results[2])
    /\ ~NilOfType(results[1], fn.outs[1])

\* a Result without failure whose Data is a nil pointer, map or slice
NilTypedData ==
    /\ RoutesOneResult
    /\ results[1].t = "Result"
    /\ results[1].Err = NoErr
    /\ IsNilPtr(results[1].Data)

NilTreatedAlike ==
    /\ NilTypedError =>
          /\ NewCalls # <<>>
          /\ NewCalls[1] = [ev |-> "handleCommonTypes", data |-> results[1]]
          /\ CallsOf("handleError") = {}
          /\ CallsOf("toHTTPError") = {}
    /\ NilTypedData => NewChunks = <<>>

C28_NilTreatedAlike == [][NilTreatedAlike]_vars

(***************************************************************************)
(* C21.  Every access to the shared configuration pointer is made under    *)
(* configMu: every read by a request flow (fetching the decoder, the JSON  *)
(* codec, the validator or the logger, the JSON encoding of success and    *)
(* error responses included) holds the read lock, and every write (the     *)
(* replacement and the lazy default initialization) holds the write lock,  *)
(* so no read of the configuration can be concurrent with a write.         *)
(***************************************************************************)
\* goroutine g is at a read or a write of config that takes no lock itself
AtBareAccess(g) == cfgRun.thr[g].pc \in {"check", "default", "store", "encode"}

\* goroutine g is at a write of config
AtWrite(g) == cfgRun.thr[g].pc \in {"default", "store"}

\* goroutine g can make its access to config now; the read of getConfig waits
\* for the read lock
CanAccess(g) == AtBareAccess(g) \/ (cfgRun.thr[g].pc = "read" /\ cfgRun.mu = 0)

C21_AccessUnderLock ==
    /\ \A g \in Goroutines : AtBareAccess(g) => cfgRun.mu = g
    /\ \A g, h \in Goroutines : (g # h /\ AtWrite(g)) => ~CanAccess(h)

(***************************************************************************)
(* C29.  Within a single Extract call of the JSON, Query or Form           *)
(* extractor, the decode step and the validation step use the same         *)
(* configuration snapshot, even when SetConfig replaces the configuration  *)
(* concurrently between the two steps.                                     *)
(***************************************************************************)
\* goroutine g validates in this step, with the configuration that its second
\* getConfig() returns
Validates(g) ==
    /\ cfgRun.thr[g].op = "Extract"
    /\ cfgRun.thr[g].pc = "read"
    /\ cfgRun.thr[g].snap # NilConfig
    /\ cfgRun'.thr[g].pc = "idle"

OneSnapshot == \A g \in Goroutines : Validates(g) => config = cfgRun.thr[g].snap

C29_OneSnapshot == [][OneSnapshot]_vars


====
